---- MODULE Spec2Model ----
(***************************************************************************)
(* Verification model of the Angular5 graph engine: the Axis mapping, the  *)
(* GraphAxis/Quadrant bound handling, the line decorators and the          *)
(* decorator factory.                                                      *)
(*                                                                         *)
(* Numbers.  Axis quantities are JavaScript numbers; they are modelled as  *)
(* exact rationals <<n, d>> in lowest terms with d > 0, extended by        *)
(* <<1,0>> (+Infinity), <<-1,0>> (-Infinity) and <<0,0>> (NaN), with the   *)
(* IEEE rules for the non-finite values.  Rounding error of the 64-bit     *)
(* binary format is not modelled.  Decorator coordinates are integers      *)
(* (pixels) and strokes are axis-aligned, so cos/sin of the segment angle  *)
(* are -1, 0 or 1 and all square roots taken are of perfect squares.       *)
(***************************************************************************)
EXTENDS Integers, Sequences, FiniteSets, TLC

VARIABLES
  axis,      \* a TSMT$Axis
  axisRet,   \* the last Axis query and its result
  style,     \* the style of the decorator a behaviour strokes with
  dashed,    \* the shared TSMT$DashedLineDecorator
  dotted,    \* the shared TSMT$DottedLineDecorator
  g,         \* commands the last decorator call sent to the graphics context
  entry,     \* decorator state on entry to the last call
  call,      \* the last decorator call
  fresh,     \* a newly constructed decorator given the current stroke only
  freshG,    \* commands the last call made the new decorator send
  stroke,    \* the current dotted stroke: run length, direction, dot centers
  pool,      \* LineDecoratorFactory._decorators
  nextId,    \* identity of the next object constructed
  first,     \* first decorator returned for each style
  last,      \* the last create call and what it returned
  quad,      \* a TSMT$Quadrant with its two TSMT$GraphAxis
  quadEntry, \* the Quadrant on entry to the last call
  quadCall,  \* the last Quadrant call
  layers,    \* the function and label layers of the Quadrant
  layerCall, \* the last call of a behaviour of the layers, whether it threw
  gaxis,     \* a TSMT$GraphAxis used on its own
  gaCall,    \* the last GraphAxis call, what it sent to its contexts
  gaBounded, \* a setBounds with right > left and top > bottom was called
  disp,      \* what the Quadrant shows: its drawing properties and its sinks
  dispCall   \* the last call of a behaviour of the display

vars == <<axis, axisRet, style, dashed, dotted, g, entry, call, fresh,
          freshG, stroke, pool, nextId, first, last, quad, quadEntry, quadCall,
          layers, layerCall, gaxis, gaCall, gaBounded, disp, dispCall>>

axisVars == <<axis, axisRet>>
decVars == <<style, dashed, dotted, g, entry, call, fresh, freshG, stroke>>
facVars == <<pool, nextId, first, last>>
quadVars == <<quad, quadEntry, quadCall>>
layerVars == <<layers, layerCall>>
gaVars == <<gaxis, gaCall, gaBounded>>
dispVars == <<disp, dispCall>>

-----------------------------------------------------------------------------
(* Extended rational arithmetic (JavaScript number semantics, exact).       *)

AbsI(i) == IF i < 0 THEN -i ELSE i

SgnI(i) == IF i < 0 THEN -1 ELSE IF i > 0 THEN 1 ELSE 0

RECURSIVE GCD(_, _)
GCD(a, b) == IF b = 0 THEN a ELSE GCD(b, a % b)

R(n, d) ==
  IF d = 0 THEN <<SgnI(n), 0>>
  ELSE LET k == GCD(AbsI(n), AbsI(d))
           s == SgnI(d)
       IN  <<(s * n) \div k, (s * d) \div k>>

I(n) == <<n, 1>>

NaN == <<0, 0>>
PosInf == <<1, 0>>
NegInf == <<-1, 0>>

isNaN(a) == a = NaN
isFinite(a) == a[2] # 0

RNeg(a) == <<-a[1], a[2]>>

RAdd(a, b) ==
  IF isNaN(a) \/ isNaN(b) THEN NaN
  ELSE IF ~isFinite(a) /\ ~isFinite(b) THEN (IF a = b THEN a ELSE NaN)
  ELSE IF ~isFinite(a) THEN a
  ELSE IF ~isFinite(b) THEN b
  ELSE R(a[1] * b[2] + b[1] * a[2], a[2] * b[2])

RSub(a, b) == RAdd(a, RNeg(b))

RMul(a, b) == R(a[1] * b[1], a[2] * b[2])

RInv(a) == R(a[2], a[1])

RDiv(a, b) == RMul(a, RInv(b))

RLt(a, b) ==
  IF isNaN(a) \/ isNaN(b) \/ a = b THEN FALSE
  ELSE IF a = NegInf \/ b = PosInf THEN TRUE
  ELSE IF a = PosInf \/ b = NegInf THEN FALSE
  ELSE a[1] * b[2] < b[1] * a[2]

REq(a, b) == ~isNaN(a) /\ ~isNaN(b) /\ a = b
RLe(a, b) == RLt(a, b) \/ REq(a, b)
RGt(a, b) == RLt(b, a)
RNe(a, b) == ~REq(a, b)

RFloor(a) == IF isFinite(a) THEN I(a[1] \div a[2]) ELSE a
RCeil(a) == RNeg(RFloor(RNeg(a)))
RRound(a) == RFloor(RAdd(a, R(1, 2)))
RMax(a, b) == IF isNaN(a) \/ isNaN(b) THEN NaN ELSE IF RLt(a, b) THEN b ELSE a

Zero == I(0)
Half == R(1, 2)

-----------------------------------------------------------------------------
(* Number.prototype.toString for the values the model uses: integers and   *)
(* odd multiples of 1/2, NaN and the infinities.                           *)

Digit(k) == CASE k = 0 -> "0" [] k = 1 -> "1" [] k = 2 -> "2" [] k = 3 -> "3"
              [] k = 4 -> "4" [] k = 5 -> "5" [] k = 6 -> "6" [] k = 7 -> "7"
              [] k = 8 -> "8" [] k = 9 -> "9"

RECURSIVE NatStr(_)
NatStr(n) == IF n < 10 THEN Digit(n) ELSE NatStr(n \div 10) \o Digit(n % 10)

toString(a) ==
  IF isNaN(a) THEN "NaN"
  ELSE IF a = PosInf THEN "Infinity"
  ELSE IF a = NegInf THEN "-Infinity"
  ELSE LET m == AbsI(a[1])
           sgn == IF a[1] < 0 THEN "-" ELSE ""
       IN  IF a[2] = 1 THEN sgn \o NatStr(m)
           ELSE sgn \o NatStr(m \div 2) \o ".5"

-----------------------------------------------------------------------------
(* TSMT$Axis                                                                *)

Axis_MAJOR == "major"
Axis_MINOR == "minor"
Axis_IN == "in"
Axis_OUT == "out"

Axis_new ==
  [pxPerUnit |-> Zero, min |-> Zero, max |-> Zero, length |-> Zero,
   majorInc |-> Zero, minorInc |-> Zero]

\* this._min <= this._max ? this._length/(this._max-this._min) : 0
Axis_pxCalc(a) ==
  IF RLe(a.min, a.max) THEN RDiv(a.length, RSub(a.max, a.min)) ELSE Zero

Axis_setMin(a, value) ==
  IF ~isNaN(value) /\ isFinite(value)
  THEN LET b == [a EXCEPT !.min = IF RNe(value, a.min) THEN value ELSE a.min]
       IN  [b EXCEPT !.pxPerUnit = Axis_pxCalc(b)]
  ELSE a

Axis_setMax(a, value) ==
  IF ~isNaN(value) /\ isFinite(value)
  THEN LET b == [a EXCEPT !.max = IF RNe(value, a.max) THEN value ELSE a.max]
       IN  [b EXCEPT !.pxPerUnit = Axis_pxCalc(b)]
  ELSE a

Axis_setLength(a, value) ==
  LET l1 == RRound(value)
      l2 == IF RNe(value, l1) THEN value ELSE l1
      l3 == IF RLt(l2, Zero) THEN RNeg(l2) ELSE l2
      b  == [a EXCEPT !.length = l3]
  IN  [b EXCEPT !.pxPerUnit = Axis_pxCalc(b)]

Axis_setMajorInc(a, inc) ==
  IF RGt(inc, Zero) THEN [a EXCEPT !.majorInc = inc] ELSE a

Axis_setMinorInc(a, inc) ==
  IF RGt(inc, Zero) THEN [a EXCEPT !.minorInc = inc] ELSE a

\* getPixel with the offset by min left out (a faulty variant)
Axis_getPixelNoOffset(a, value) == RMul(value, a.pxPerUnit)

Axis_getPixel(a, value) == RMul(RSub(value, a.min), a.pxPerUnit)

Axis_getValue(a, pixel) ==
  RAdd(a.min, RMul(RDiv(pixel, a.length), RSub(a.max, a.min)))

\* while (tic <= max) { push(tic.toString()); tic += inc }
RECURSIVE Axis_markLoop(_, _, _, _)
Axis_markLoop(tic, inc, max, ticMarks) ==
  IF RLe(tic, max)
  THEN Axis_markLoop(RAdd(tic, inc), inc, max, Append(ticMarks, toString(tic)))
  ELSE ticMarks

Axis_getTicMarks(a, type) ==
  IF REq(a.pxPerUnit, Zero) THEN <<>>
  ELSE IF type = Axis_MAJOR
  THEN IF RNe(a.majorInc, Zero)
       THEN LET tic == RMul(RCeil(RDiv(a.min, a.majorInc)), a.majorInc)
            IN  Axis_markLoop(RAdd(tic, a.majorInc), a.majorInc, a.max,
                              <<toString(tic)>>)
       ELSE <<>>
  ELSE IF type = Axis_MINOR
  THEN IF REq(a.minorInc, Zero)
       THEN LET tic == RMul(RCeil(RDiv(a.min, a.minorInc)), a.minorInc)
            IN  Axis_markLoop(RAdd(tic, a.majorInc), a.majorInc, a.max,
                              <<toString(tic)>>)
       ELSE <<>>
  ELSE <<>>

\* the loop below with tic < max for tic <= max (a faulty variant)
RECURSIVE Axis_coordLoopExclusive(_, _, _, _)
Axis_coordLoopExclusive(a, tic, inc, ticMarks) ==
  IF RLt(tic, a.max)
  THEN Axis_coordLoopExclusive(a, RAdd(tic, inc), inc,
         Append(ticMarks, RRound(RMul(RSub(tic, a.min), a.pxPerUnit))))
  ELSE ticMarks

\* while (tic <= max) { push(round((tic-min)*px)); tic += inc }
RECURSIVE Axis_coordLoop(_, _, _, _)
Axis_coordLoop(a, tic, inc, ticMarks) ==
  IF RLe(tic, a.max)
  THEN Axis_coordLoop(a, RAdd(tic, inc), inc,
         Append(ticMarks, RRound(RMul(RSub(tic, a.min), a.pxPerUnit))))
  ELSE ticMarks

Axis_getTicCoordinates(a, type) ==
  IF REq(a.pxPerUnit, Zero) THEN <<>>
  ELSE IF type = Axis_MAJOR
  THEN IF RNe(a.majorInc, Zero)
       THEN Axis_coordLoop(a, RMul(RCeil(RDiv(a.min, a.majorInc)), a.majorInc),
                           a.majorInc, <<>>)
       ELSE <<>>
  ELSE IF type = Axis_MINOR
  THEN IF RNe(a.minorInc, Zero)
       THEN Axis_coordLoop(a, RMul(RCeil(RDiv(a.min, a.minorInc)), a.minorInc),
                           a.minorInc, <<>>)
       ELSE <<>>
  ELSE <<>>

Axis_zoom(a, dir, factor0) ==
  IF isNaN(factor0) \/ ~isFinite(factor0) \/ RLt(factor0, I(1)) THEN a
  ELSE LET factor   == RRound(factor0)
           midpoint == RMul(Half, RAdd(a.max, a.min))
           d0       == RSub(a.max, midpoint)
           d        == IF dir = Axis_IN THEN RDiv(d0, factor)
                       ELSE IF dir = Axis_OUT THEN RMul(d0, factor)
                       ELSE d0
       IN  Axis_setMax([a EXCEPT !.min = RSub(midpoint, d)], RAdd(midpoint, d))

Axis_shift(a, amount) ==
  IF isNaN(amount) \/ ~isFinite(amount) THEN a
  ELSE IF REq(a.pxPerUnit, Zero) THEN a
  ELSE LET px == RDiv(amount, a.pxPerUnit)
       IN  [a EXCEPT !.min = RSub(a.min, px), !.max = RSub(a.max, px)]

-----------------------------------------------------------------------------
(* The Axis as a state machine: mutators change axis, queries record their *)
(* result in axisRet; a mutator discards the recorded result.              *)

MaxSmall == 2
MaxVal == 10
MaxLen == 4

ValArgs == {I(v) : v \in (0 - 1)..MaxSmall} \cup {I(MaxVal), NaN, PosInf}
LenArgs == {I(0), I(MaxLen), I(0 - MaxLen)}
IncArgs == {I(0), I(0 - 1), I(2), Half}
PixArgs == {I(p) : p \in 0..MaxLen}
TypeArgs == {Axis_MAJOR, Axis_MINOR, "other"}
DirArgs == {Axis_IN, Axis_OUT, "other"}
FactorArgs == {I(2), Half, NaN}
ShiftArgs == {I(1), I(0 - 1), I(2), NaN}

NoRet == [op |-> "none", arg |-> Zero, val |-> Zero]

\* values zoom and shift may produce in the model: NaN, or a multiple of 1/2
\* of magnitude <= MaxSmall
InRange(v) == isNaN(v) \/ (v[2] \in {1, 2} /\ AbsI(v[1]) <= MaxSmall * v[2])
AxisInRange(a) == InRange(a.min) /\ InRange(a.max)

AxisInit == axis = Axis_new /\ axisRet = NoRet

SetMin ==
  \E v \in ValArgs :
    /\ axis' = Axis_setMin(axis, v)
    /\ axisRet' = NoRet
    /\ UNCHANGED <<decVars, facVars, quadVars, layerVars, gaVars, dispVars>>

SetMax ==
  \E v \in ValArgs :
    /\ axis' = Axis_setMax(axis, v)
    /\ axisRet' = NoRet
    /\ UNCHANGED <<decVars, facVars, quadVars, layerVars, gaVars, dispVars>>

SetLength ==
  \E v \in LenArgs :
    /\ axis' = Axis_setLength(axis, v)
    /\ axisRet' = NoRet
    /\ UNCHANGED <<decVars, facVars, quadVars, layerVars, gaVars, dispVars>>

SetMajorInc ==
  \E v \in IncArgs :
    /\ axis' = Axis_setMajorInc(axis, v)
    /\ axisRet' = NoRet
    /\ UNCHANGED <<decVars, facVars, quadVars, layerVars, gaVars, dispVars>>

SetMinorInc ==
  \E v \in IncArgs :
    /\ axis' = Axis_setMinorInc(axis, v)
    /\ axisRet' = NoRet
    /\ UNCHANGED <<decVars, facVars, quadVars, layerVars, gaVars, dispVars>>

Zoom ==
  \E dir \in DirArgs, f \in FactorArgs :
    /\ AxisInRange(Axis_zoom(axis, dir, f))
    /\ axis' = Axis_zoom(axis, dir, f)
    /\ axisRet' = NoRet
    /\ UNCHANGED <<decVars, facVars, quadVars, layerVars, gaVars, dispVars>>

Shift ==
  \E amount \in ShiftArgs :
    /\ AxisInRange(Axis_shift(axis, amount))
    /\ axis' = Axis_shift(axis, amount)
    /\ axisRet' = NoRet
    /\ UNCHANGED <<decVars, facVars, quadVars, layerVars, gaVars, dispVars>>

GetPixel ==
  \E v \in ValArgs :
    /\ isFinite(v)
    /\ axisRet' = [op |-> "getPixel", arg |-> v, val |-> Axis_getPixel(axis, v)]
    /\ UNCHANGED <<axis, decVars, facVars, quadVars, layerVars, gaVars, dispVars>>

GetValue ==
  \E p \in PixArgs :
    /\ axisRet' = [op |-> "getValue", arg |-> p, val |-> Axis_getValue(axis, p)]
    /\ UNCHANGED <<axis, decVars, facVars, quadVars, layerVars, gaVars, dispVars>>

GetTicMarks ==
  \E t \in TypeArgs :
    /\ axisRet' = [op |-> "getTicMarks", arg |-> t,
                   val |-> Axis_getTicMarks(axis, t)]
    /\ UNCHANGED <<axis, decVars, facVars, quadVars, layerVars, gaVars, dispVars>>

GetTicCoordinates ==
  \E t \in TypeArgs :
    /\ axisRet' = [op |-> "getTicCoordinates", arg |-> t,
                   val |-> Axis_getTicCoordinates(axis, t)]
    /\ UNCHANGED <<axis, decVars, facVars, quadVars, layerVars, gaVars, dispVars>>

AxisNext ==
  \/ SetMin \/ SetMax \/ SetLength \/ SetMajorInc \/ SetMinorInc
  \/ Zoom \/ Shift
  \/ GetPixel \/ GetValue \/ GetTicMarks \/ GetTicCoordinates

-----------------------------------------------------------------------------
(* Line decorators.  A graphics context is the sequence of commands sent   *)
(* to it; the operators below work on a decorator record extended by the   *)
(* field out, the commands one call sends.                                 *)

Sqrt(n) == CHOOSE r \in 0..n : r * r = n
IsSquare(n) == \E r \in 0..n : r * r = n

\* Math.cos(Math.atan2(dy, dx)) and Math.sin(Math.atan2(dy, dx)), dx*dy = 0
CosAtan2(dy, dx) == IF dy = 0 THEN (IF dx < 0 THEN 0 - 1 ELSE 1) ELSE 0
SinAtan2(dy, dx) == IF dy = 0 THEN 0 ELSE SgnI(dy)

With(d, cmds) == [d EXCEPT !.out = cmds]
Emit(w, cmd) == [w EXCEPT !.out = Append(@, cmd)]

\* TSMT$AbstractLineDecorator (the solid line)
Solid_moveTo(x, y) == <<<<"moveTo", x, y>>>>
Solid_lineTo(x, y) == <<<<"lineTo", x, y>>>>

\* TSMT$DashedLineDecorator
Dashed_new ==
  [penX |-> 0, penY |-> 0, upLength |-> 3, dnLength |-> 5, overflow |-> 0,
   drawingLine |-> TRUE, dashLength |-> 3 + 5, out |-> <<>>]

Dashed_moveToW(w, x, y) ==
  Emit([w EXCEPT !.penX = x, !.penY = y], <<"moveTo", x, y>>)

Dashed_moveTo(d, x, y) == Dashed_moveToW(With(d, <<>>), x, y)

Dashed_execLineTo(w, x, y) ==
  IF x = w.penX /\ y = w.penY THEN w
  ELSE Emit([w EXCEPT !.penX = x, !.penY = y], <<"lineTo", x, y>>)

\* for (i = 0; i < dashes; ++i) { down-up or up-down pair }
RECURSIVE Dashed_cycles(_, _, _, _, _, _, _)
Dashed_cycles(w, i, dashes, dnX, dnY, upX, upY) ==
  IF i >= dashes THEN w
  ELSE LET a == IF w.drawingLine
                THEN Dashed_execLineTo(w, w.penX + dnX, w.penY + dnY)
                ELSE Dashed_moveToW(w, w.penX + upX, w.penY + upY)
           b == IF w.drawingLine
                THEN Dashed_moveToW(a, a.penX + upX, a.penY + upY)
                ELSE Dashed_execLineTo(a, a.penX + dnX, a.penY + dnY)
       IN  Dashed_cycles(b, i + 1, dashes, dnX, dnY, upX, upY)

\* the leftover after the full cycles, with the carry dropped in the
\* pen-down case (a faulty variant)
Dashed_leftoverNoCarry(w, x, y, segLength, ca, sa) ==
  IF w.drawingLine
  THEN IF segLength > w.dnLength
       THEN LET a == Dashed_execLineTo(w, w.penX + ca * w.dnLength,
                                          w.penY + sa * w.dnLength)
                b == Dashed_moveToW(a, x, y)
            IN  [b EXCEPT !.overflow = 0, !.drawingLine = FALSE]
       ELSE LET a == Dashed_execLineTo(w, x, y)
            IN  IF segLength = w.dnLength
                THEN [a EXCEPT !.overflow = 0, !.drawingLine = ~@]
                ELSE Dashed_moveToW([a EXCEPT !.overflow = w.dnLength - segLength],
                                    x, y)
  ELSE IF segLength > w.upLength
       THEN LET a == Dashed_moveToW(w, w.penX + ca * w.upLength,
                                       w.penY + sa * w.upLength)
                b == [a EXCEPT !.overflow = w.dnLength - (segLength - w.upLength),
                               !.drawingLine = TRUE]
            IN  Dashed_execLineTo(b, x, y)
       ELSE LET a == Dashed_moveToW(w, x, y)
            IN  IF segLength = w.upLength
                THEN [a EXCEPT !.overflow = 0, !.drawingLine = ~@]
                ELSE [a EXCEPT !.overflow = w.upLength - segLength]

Dashed_leftover(w, x, y, segLength, ca, sa) ==
  IF w.drawingLine
  THEN IF segLength > w.dnLength
       THEN LET a == Dashed_execLineTo(w, w.penX + ca * w.dnLength,
                                          w.penY + sa * w.dnLength)
                b == Dashed_moveToW(a, x, y)
            IN  [b EXCEPT !.overflow = w.upLength - (segLength - w.dnLength),
                          !.drawingLine = FALSE]
       ELSE LET a == Dashed_execLineTo(w, x, y)
            IN  IF segLength = w.dnLength
                THEN [a EXCEPT !.overflow = 0, !.drawingLine = ~@]
                ELSE Dashed_moveToW([a EXCEPT !.overflow = w.dnLength - segLength],
                                    x, y)
  ELSE IF segLength > w.upLength
       THEN LET a == Dashed_moveToW(w, w.penX + ca * w.upLength,
                                       w.penY + sa * w.upLength)
                b == [a EXCEPT !.overflow = w.dnLength - (segLength - w.upLength),
                               !.drawingLine = TRUE]
            IN  Dashed_execLineTo(b, x, y)
       ELSE LET a == Dashed_moveToW(w, x, y)
            IN  IF segLength = w.upLength
                THEN [a EXCEPT !.overflow = 0, !.drawingLine = ~@]
                ELSE [a EXCEPT !.overflow = w.upLength - segLength]

\* full dash cycles, then the leftover
Dashed_rest(w, x, y, segLength, ca, sa) ==
  LET dashes == segLength \div w.dashLength
      a == IF dashes > 0
           THEN Dashed_cycles(w, 0, dashes, ca * w.dnLength, sa * w.dnLength,
                              ca * w.upLength, sa * w.upLength)
           ELSE w
      rem == IF dashes > 0 THEN segLength - w.dashLength * dashes ELSE segLength
  IN  Dashed_leftover(a, x, y, rem, ca, sa)

Dashed_lineTo(d, x, y) ==
  LET w  == With(d, <<>>)
      dx == x - w.penX
      dy == y - w.penY
      ca == CosAtan2(dy, dx)
      sa == SinAtan2(dy, dx)
      segLength == Sqrt(dx * dx + dy * dy)
  IN  IF w.overflow > 0
      THEN IF w.overflow > segLength
           THEN LET a == IF w.drawingLine THEN Dashed_execLineTo(w, x, y)
                         ELSE Dashed_moveToW(w, x, y)
                IN  [a EXCEPT !.overflow = @ - segLength]
           ELSE LET a == IF w.drawingLine
                         THEN Dashed_execLineTo(w, w.penX + ca * w.overflow,
                                                   w.penY + sa * w.overflow)
                         ELSE Dashed_moveToW(w, w.penX + ca * w.overflow,
                                                w.penY + sa * w.overflow)
                    b == [a EXCEPT !.overflow = 0, !.drawingLine = ~@]
                    rem == segLength - w.overflow
                IN  IF AbsI(rem) = 0 THEN b
                    ELSE Dashed_rest(b, x, y, rem, ca, sa)
      ELSE Dashed_rest(w, x, y, segLength, ca, sa)

\* _data[key] given to parseFloat: NaN for a missing key
Data_get(data, key) == IF key \in DOMAIN data THEN data[key] ELSE NaN

\* the down length is read under the key 'dnlength' when the object has the
\* key 'dnLength'; the up length is tested on a variable that is never
\* assigned, so it is never replaced; both are rounded
Dashed_setParams(d, data) ==
  LET dn == Data_get(data, "dnlength")
      dnLength == IF "dnLength" \in DOMAIN data /\ isFinite(dn) /\ RGt(dn, Zero)
                  THEN dn ELSE I(d.dnLength)
      upLength == I(d.upLength)
  IN  [d EXCEPT !.upLength = RRound(upLength)[1],
                !.dnLength = RRound(dnLength)[1],
                !.dashLength = RRound(upLength)[1] + RRound(dnLength)[1],
                !.out = <<>>]

\* the context is cleared, overflow and phase are reset, the pen is kept
Dashed_clear(d) ==
  [d EXCEPT !.overflow = 0, !.drawingLine = TRUE, !.out = <<<<"clear">>>>]

\* TSMT$DottedLineDecorator
Dotted_new ==
  [radius |-> 3, spacing |-> 4, dotX |-> 0, dotY |-> 0, refX |-> 0,
   refY |-> 0, length |-> 2 * 3 + 4, lSq |-> (2 * 3 + 4) * (2 * 3 + 4),
   unused |-> 0, out |-> <<>>]

Dotted_drawDot(w, x, y) == Emit(w, <<"drawCircle", x, y, w.radius>>)

Dotted_moveTo(d, x, y) ==
  LET a == Dotted_drawDot(With(d, <<>>), x, y)
  IN  [a EXCEPT !.dotX = x, !.dotY = y, !.refX = x, !.refY = y, !.unused = 0]

\* for (i = 0; i < numDots; ++i) { advance the dot by length; drawDot }
RECURSIVE Dotted_dots(_, _, _, _, _)
Dotted_dots(w, i, numDots, dx, dy) ==
  IF i >= numDots THEN w
  ELSE LET a == [w EXCEPT !.dotX = @ + dx * w.length, !.dotY = @ + dy * w.length]
       IN  Dotted_dots(Dotted_drawDot(a, a.dotX, a.dotY), i + 1, numDots, dx, dy)

Dotted_dSq(d, x, y) ==
  IF d.unused = 0
  THEN (x - d.dotX) * (x - d.dotX) + (y - d.dotY) * (y - d.dotY)
  ELSE (x - d.refX) * (x - d.refX) + (y - d.refY) * (y - d.refY) + d.unused

Dotted_lineTo(d, x, y) ==
  LET w   == With(d, <<>>)
      dSq == Dotted_dSq(d, x, y)
      a   == IF dSq <= w.lSq
             THEN [w EXCEPT !.unused = dSq]
             ELSE LET dx0 == x - w.refX
                      dy0 == y - w.refY
                      dist == Sqrt(dx0 * dx0 + dy0 * dy0)
                      dx  == dx0 \div dist
                      dy  == dy0 \div dist
                      b   == IF w.unused = 0 THEN w
                             ELSE LET u == Sqrt(w.unused)
                                      c == [w EXCEPT !.dotX = w.refX + dx * u,
                                                     !.dotY = w.refY + dy * u]
                                  IN  Dotted_drawDot(c, c.dotX, c.dotY)
                      numDots == IF w.unused = 0
                                 THEN Sqrt(dSq) \div w.length
                                 ELSE Sqrt((x - b.dotX) * (x - b.dotX)
                                           + (y - b.dotY) * (y - b.dotY))
                                      \div w.length
                      e   == IF numDots > 0 THEN Dotted_dots(b, 0, numDots, dx, dy)
                             ELSE b
                  IN  [e EXCEPT !.unused = (x - e.dotX) * (x - e.dotX)
                                           + (y - e.dotY) * (y - e.dotY)]
  IN  [a EXCEPT !.refX = x, !.refY = y]

\* the calls whose square roots and direction the integer model takes exactly
Dotted_exact(d, x, y) ==
  LET dSq == Dotted_dSq(d, x, y)
      dx0 == x - d.refX
      dy0 == y - d.refY
  IN  dSq > d.lSq =>
        /\ (dx0 = 0 \/ dy0 = 0) /\ ~(dx0 = 0 /\ dy0 = 0)
        /\ IsSquare(d.unused)
        /\ d.unused = 0 => IsSquare(dSq)

-----------------------------------------------------------------------------
(* Strokes through one shared decorator.  A behaviour strokes with the     *)
(* decorator of one style (the instances of different styles share no     *)
(* state).  Targets are pixels of a small grid; lineTo targets are         *)
(* axis-aligned for the dashed decorator.                                  *)

MaxX == 10
MaxY == 1
MaxDotX == 4
MaxDotY == 1

SOLID == "solid"
DASHED == "dashed"
DOTTED == "dotted"
Styles == {SOLID, DASHED, DOTTED}

Xs == IF style = DOTTED THEN {5 * i : i \in 0..MaxDotX} ELSE 0..MaxX
Ys == IF style = DOTTED THEN {5 * i : i \in 0..MaxDotY} ELSE 0..MaxY

NoCall == [op |-> "none", x |-> 0, y |-> 0]
NoStroke == [straight |-> FALSE, len |-> 0, dirX |-> 0, dirY |-> 0, dots |-> <<>>]

\* centers of the dots among the commands cmds
RECURSIVE Centers(_)
Centers(cmds) ==
  IF cmds = <<>> THEN <<>>
  ELSE IF Head(cmds)[1] = "drawCircle"
       THEN <<<<Head(cmds)[2], Head(cmds)[3]>>>> \o Centers(Tail(cmds))
       ELSE Centers(Tail(cmds))

StrokeStart(cmds) ==
  [straight |-> TRUE, len |-> 0, dirX |-> 0, dirY |-> 0, dots |-> Centers(cmds)]

\* the stroke after a lineTo from (px, py) to (x, y) that sent cmds
StrokeExtend(st, px, py, x, y, cmds) ==
  LET dx == x - px
      dy == y - py
      segLen == AbsI(dx) + AbsI(dy)
      same == st.len = 0 \/ (st.dirX = SgnI(dx) /\ st.dirY = SgnI(dy))
  IN  IF ~st.straight THEN NoStroke
      ELSE IF segLen = 0 THEN [st EXCEPT !.dots = @ \o Centers(cmds)]
      ELSE IF (dx = 0 \/ dy = 0) /\ same
      THEN [straight |-> TRUE, len |-> st.len + segLen, dirX |-> SgnI(dx),
            dirY |-> SgnI(dy), dots |-> st.dots \o Centers(cmds)]
      ELSE NoStroke

DecInit(s) ==
  /\ style = s
  /\ dashed = Dashed_new
  /\ dotted = Dotted_new
  /\ g = <<>>
  /\ entry = IF s = DOTTED THEN Dotted_new ELSE Dashed_new
  /\ call = NoCall
  /\ fresh = IF s = DOTTED THEN Dotted_new ELSE Dashed_new
  /\ freshG = <<>>
  /\ stroke = NoStroke

SolidMoveTo ==
  /\ style = SOLID
  /\ \E x \in Xs, y \in Ys :
       /\ g' = Solid_moveTo(x, y)
       /\ freshG' = Solid_moveTo(x, y)
       /\ call' = [op |-> "moveTo", x |-> x, y |-> y]
  /\ UNCHANGED <<style, dashed, dotted, entry, fresh, stroke>>
  /\ UNCHANGED <<axisVars, facVars, quadVars, layerVars, gaVars, dispVars>>

SolidLineTo ==
  /\ style = SOLID
  /\ \E x \in Xs, y \in Ys :
       /\ g' = Solid_lineTo(x, y)
       /\ freshG' = Solid_lineTo(x, y)
       /\ call' = [op |-> "lineTo", x |-> x, y |-> y]
  /\ UNCHANGED <<style, dashed, dotted, entry, fresh, stroke>>
  /\ UNCHANGED <<axisVars, facVars, quadVars, layerVars, gaVars, dispVars>>

DashedMoveTo ==
  /\ style = DASHED
  /\ \E x \in Xs, y \in Ys :
       LET w == Dashed_moveTo(dashed, x, y)
           f == Dashed_moveTo(Dashed_new, x, y)
       IN  /\ dashed' = With(w, <<>>)
           /\ g' = w.out
           /\ fresh' = With(f, <<>>)
           /\ freshG' = f.out
           /\ entry' = dashed
           /\ call' = [op |-> "moveTo", x |-> x, y |-> y]
  /\ UNCHANGED <<style, dotted, stroke>>
  /\ UNCHANGED <<axisVars, facVars, quadVars, layerVars, gaVars, dispVars>>

DashedLineTo ==
  /\ style = DASHED
  /\ \E x \in Xs, y \in Ys :
       /\ x = dashed.penX \/ y = dashed.penY
       /\ LET w == Dashed_lineTo(dashed, x, y)
              f == Dashed_lineTo(fresh, x, y)
          IN  /\ dashed' = With(w, <<>>)
              /\ g' = w.out
              /\ fresh' = With(f, <<>>)
              /\ freshG' = f.out
              /\ entry' = dashed
              /\ call' = [op |-> "lineTo", x |-> x, y |-> y]
  /\ UNCHANGED <<style, dotted, stroke>>
  /\ UNCHANGED <<axisVars, facVars, quadVars, layerVars, gaVars, dispVars>>

DottedMoveTo ==
  /\ style = DOTTED
  /\ \E x \in Xs, y \in Ys :
       LET w == Dotted_moveTo(dotted, x, y)
           f == Dotted_moveTo(Dotted_new, x, y)
       IN  /\ dotted' = With(w, <<>>)
           /\ g' = w.out
           /\ fresh' = With(f, <<>>)
           /\ freshG' = f.out
           /\ entry' = dotted
           /\ call' = [op |-> "moveTo", x |-> x, y |-> y]
           /\ stroke' = StrokeStart(w.out)
  /\ UNCHANGED <<style, dashed>>
  /\ UNCHANGED <<axisVars, facVars, quadVars, layerVars, gaVars, dispVars>>

DottedLineTo ==
  /\ style = DOTTED
  /\ \E x \in Xs, y \in Ys :
       /\ Dotted_exact(dotted, x, y)
       /\ Dotted_exact(fresh, x, y)
       /\ LET w == Dotted_lineTo(dotted, x, y)
              f == Dotted_lineTo(fresh, x, y)
          IN  /\ dotted' = With(w, <<>>)
              /\ g' = w.out
              /\ fresh' = With(f, <<>>)
              /\ freshG' = f.out
              /\ entry' = dotted
              /\ call' = [op |-> "lineTo", x |-> x, y |-> y]
              /\ stroke' = StrokeExtend(stroke, dotted.refX, dotted.refY, x, y,
                                        w.out)
  /\ UNCHANGED <<style, dashed>>
  /\ UNCHANGED <<axisVars, facVars, quadVars, layerVars, gaVars, dispVars>>

DecNext ==
  \/ SolidMoveTo \/ SolidLineTo
  \/ DashedMoveTo \/ DashedLineTo
  \/ DottedMoveTo \/ DottedLineTo

\* objects given to setParams: the two documented keys, the same with the
\* keys in lower case added, no key, values that are not lengths
Lengths(upLength, dnLength) ==
  [k \in {"upLength", "dnLength"} |->
     IF k = "upLength" THEN upLength ELSE dnLength]
BothCases(upLength, dnLength) ==
  [k \in {"upLength", "dnLength", "uplength", "dnlength"} |->
     IF k \in {"upLength", "uplength"} THEN upLength ELSE dnLength]
DataArgs ==
  {Lengths(I(4), I(6)), Lengths(R(5, 2), I(2)), Lengths(NaN, I(0 - 1)),
   BothCases(I(4), I(6)), <<>>}

\* the parameters are assigned before the decorator draws
SetParams ==
  /\ style = DASHED
  /\ call.op \in {"none", "setParams"}
  /\ \E data \in DataArgs :
       /\ dashed' = Dashed_setParams(dashed, data)
       /\ g' = <<>>
       /\ entry' = dashed
       /\ call' = [op |-> "setParams", x |-> 0, y |-> 0, data |-> data]
  /\ UNCHANGED <<style, dotted, fresh, freshG, stroke>>
  /\ UNCHANGED <<axisVars, facVars, quadVars, layerVars, gaVars, dispVars>>

DashedClear ==
  /\ style = DASHED
  /\ dashed' = With(Dashed_clear(dashed), <<>>)
  /\ g' = Dashed_clear(dashed).out
  /\ entry' = dashed
  /\ call' = [op |-> "clear", x |-> 0, y |-> 0]
  /\ UNCHANGED <<style, dotted, fresh, freshG, stroke>>
  /\ UNCHANGED <<axisVars, facVars, quadVars, layerVars, gaVars, dispVars>>

\* the dashed decorator with its parameters and its clear
DashedNext == SetParams \/ DashedClear \/ DashedMoveTo \/ DashedLineTo

-----------------------------------------------------------------------------
(* LineDecoratorFactory.  Objects are records of a class and an identity.  *)

Null == [class |-> "null", id |-> 0]
Undefined == [class |-> "undefined", id |-> 0]

\* members every object literal inherits from Object.prototype
PrototypeKeys == {"toString"}

Keys == Styles \cup {"bogus"} \cup PrototypeKeys

\* LineDecoratorFactory._decorators[type]
Factory_lookup(p, type) ==
  IF type \in Styles THEN p[type]
  ELSE IF type \in PrototypeKeys THEN [class |-> "Function", id |-> 0]
  ELSE Undefined

Factory_new == [t \in Styles |-> Null]

\* create(type): the pool after the call, the next identity and the result
Factory_create(p, n, type) ==
  LET decorator == Factory_lookup(p, type)
  IN  IF decorator # Undefined /\ decorator # Null
      THEN [pool |-> p, nextId |-> n, ret |-> decorator]
      ELSE LET made ==
                 IF type = SOLID THEN [class |-> "TSMT$AbstractLineDecorator", id |-> n]
                 ELSE IF type = DASHED THEN [class |-> "TSMT$DashedLineDecorator", id |-> n]
                 ELSE IF type = DOTTED THEN [class |-> "TSMT$DottedLineDecorator", id |-> n]
                 ELSE [class |-> "TSMT$AbstractLineDecorator", id |-> n]
               slot == IF type \in {DASHED, DOTTED} THEN type ELSE SOLID
           IN  [pool |-> [p EXCEPT ![slot] = made], nextId |-> n + 1, ret |-> made]

MaxInst == 4

\* the style a key stands for: unknown keys fall back to solid
Resolved(type) == IF type \in Styles THEN type ELSE SOLID

NoCreate == [type |-> "none", ret |-> Null]

FacInit ==
  /\ pool = Factory_new
  /\ nextId = 1
  /\ first = [t \in Styles |-> Null]
  /\ last = NoCreate

Create ==
  \E type \in Keys :
    LET r == Factory_create(pool, nextId, type)
    IN  /\ r.nextId <= MaxInst + 1
        /\ pool' = r.pool
        /\ nextId' = r.nextId
        /\ first' = IF first[Resolved(type)] = Null
                    THEN [first EXCEPT ![Resolved(type)] = r.ret]
                    ELSE first
        /\ last' = [type |-> type, ret |-> r.ret]
        /\ UNCHANGED <<axisVars, decVars, quadVars, layerVars, gaVars, dispVars>>

FacNext == Create

-----------------------------------------------------------------------------
(* TSMT$GraphAxis and the bounds of TSMT$Quadrant                           *)

HORIZONTAL == "H"
VERTICAL == "V"

GraphAxis_new ==
  [orientation |-> HORIZONTAL, axis |-> Axis_new, left |-> Zero, top |-> Zero,
   right |-> Zero, bottom |-> Zero, length |-> I(10), height |-> I(10)]

GraphAxis_setOrientation(ga, orient) ==
  IF orient = HORIZONTAL \/ orient = VERTICAL
  THEN [ga EXCEPT !.orientation = orient] ELSE ga

\* the stored box: each bound pair is tested on its own
GraphAxis_storeBox(ga, left, top, right, bottom, length, height) ==
  [ga EXCEPT !.left   = IF RGt(right, left) THEN left ELSE @,
             !.right  = IF RGt(right, left) THEN right ELSE @,
             !.bottom = IF RGt(top, bottom) THEN bottom ELSE @,
             !.top    = IF RGt(top, bottom) THEN top ELSE @,
             !.length = IF RGt(length, Zero) THEN length ELSE @,
             !.height = IF RGt(height, Zero) THEN height ELSE @]

\* the owned Axis re-derived from the stored box
GraphAxis_deriveAxis(ga) ==
  IF ga.orientation = HORIZONTAL
  THEN [ga EXCEPT !.axis = Axis_setLength(
                     Axis_setMax(Axis_setMin(@, ga.left), ga.right), ga.length)]
  ELSE [ga EXCEPT !.axis = Axis_setLength(
                     Axis_setMax(Axis_setMin(@, ga.bottom), ga.top), ga.height)]

GraphAxis_setBounds(ga, left, top, right, bottom, length, height) ==
  GraphAxis_deriveAxis(
    GraphAxis_storeBox(ga, left, top, right, bottom, length, height))

Quadrant_new ==
  [xAxis |-> GraphAxis_setOrientation(GraphAxis_new, HORIZONTAL),
   yAxis |-> GraphAxis_setOrientation(GraphAxis_new, VERTICAL),
   xAxisLength |-> I(100), yAxisLength |-> I(100),
   pxPerUnitX |-> Zero, pxPerUnitY |-> Zero,
   left |-> Zero, top |-> Zero, right |-> Zero, bottom |-> Zero,
   gridInvalidated |-> FALSE, labelsInvalidated |-> FALSE]

\* isNaN(v) ? old : v
Quadrant_arg(v, old) == IF isNaN(v) THEN old ELSE v

\* the bound test taken pair by pair (a faulty variant)
Quadrant_storeBoundsPairwise(q, l, t, r, b) ==
  [q EXCEPT !.left   = IF RGt(r, l) THEN l ELSE @,
            !.right  = IF RGt(r, l) THEN r ELSE @,
            !.top    = IF RGt(t, b) THEN t ELSE @,
            !.bottom = IF RGt(t, b) THEN b ELSE @]

\* if (r > l && t > b) { store the four bounds }
Quadrant_storeBounds(q, l, t, r, b) ==
  IF RGt(r, l) /\ RGt(t, b)
  THEN [q EXCEPT !.top = t, !.left = l, !.right = r, !.bottom = b]
  ELSE q

Quadrant_storeLengths(q, xAxisLength, yAxisLength) ==
  [q EXCEPT
     !.xAxisLength = IF isNaN(xAxisLength) THEN @ ELSE RMax(I(1), xAxisLength),
     !.yAxisLength = IF isNaN(yAxisLength) THEN @ ELSE RMax(I(1), yAxisLength)]

\* pixels per unit, the bounds of both GraphAxis, the invalidation flags
Quadrant_derive(q) ==
  [q EXCEPT
     !.pxPerUnitX = RDiv(q.xAxisLength, RSub(q.right, q.left)),
     !.pxPerUnitY = RDiv(q.yAxisLength, RSub(q.top, q.bottom)),
     !.xAxis = GraphAxis_setBounds(@, q.left, q.top, q.right, q.bottom,
                                   q.xAxisLength, q.yAxisLength),
     !.yAxis = GraphAxis_setBounds(@, q.left, q.top, q.right, q.bottom,
                                   q.xAxisLength, q.yAxisLength),
     !.gridInvalidated = TRUE, !.labelsInvalidated = TRUE]

Quadrant_setGraphBounds(q, left, top, right, bottom, xAxisLength, yAxisLength) ==
  Quadrant_derive(
    Quadrant_storeLengths(
      Quadrant_storeBounds(q, Quadrant_arg(left, q.left), Quadrant_arg(top, q.top),
                           Quadrant_arg(right, q.right),
                           Quadrant_arg(bottom, q.bottom)),
      xAxisLength, yAxisLength))

MaxBound == 2

LeftArgs == {I(0), I(1), NaN}
RightArgs == {I(1), I(MaxBound)}
TopArgs == {I(1), NaN}
BottomArgs == {I(0), I(1)}
BoxArgs == {<<I(0), I(MaxLen)>>, <<I(MaxLen), NaN>>, <<NaN, I(0 - 1)>>}

NoQuadCall ==
  [op |-> "none", left |-> Zero, top |-> Zero, right |-> Zero, bottom |-> Zero,
   xAxisLength |-> Zero, yAxisLength |-> Zero]

QuadInit ==
  /\ quad = Quadrant_new
  /\ quadEntry = Quadrant_new
  /\ quadCall = NoQuadCall

SetGraphBounds ==
  \E l \in LeftArgs, t \in TopArgs, r \in RightArgs, b \in BottomArgs,
     box \in BoxArgs :
    /\ quad' = Quadrant_setGraphBounds(quad, l, t, r, b, box[1], box[2])
    /\ quadEntry' = quad
    /\ quadCall' = [op |-> "setGraphBounds", left |-> l, top |-> t, right |-> r,
                    bottom |-> b, xAxisLength |-> box[1], yAxisLength |-> box[2]]
    /\ UNCHANGED <<axisVars, decVars, facVars, layerVars, gaVars, dispVars>>

QuadNext == SetGraphBounds

-----------------------------------------------------------------------------
(* The function layers and the label layers of TSMT$Quadrant.              *)

\* layer names; '' is the name addFunctionlayer refuses
Names == {"a", "b", ""}

\* JavaScript values passed for an array or for a property object
Arr(items) == [type |-> "array", items |-> items]
UndefinedArr == [type |-> "undefined", items |-> <<>>]
Props(showLine, showDot, radius) ==
  [type |-> "object", showLine |-> showLine, showDot |-> showDot,
   radius |-> radius]
UndefinedProps ==
  [type |-> "undefined", showLine |-> FALSE, showDot |-> FALSE, radius |-> Zero]

\* items[i] read as a number: a missing element is undefined, NaN in arithmetic
Layer_at(items, i) == IF i <= Len(items) THEN items[i] ELSE NaN
\* labels[i] read as a text
Layer_text(items, i) == IF i <= Len(items) THEN items[i] ELSE "undefined"

\* how a call ends: normally, or in a thrown TypeError, with the state it leaves
Ok(s) == [s |-> s, threw |-> FALSE]
Throw(s) == [s |-> s, threw |-> TRUE]

\* the containers _functionLayers and _labelLayers hold the graphics of their
\* children in the order added; a map entry is the position of the child, 0
\* for undefined
Layers_new ==
  [functionLayers  |-> <<>>,
   labelLayers     |-> <<>>,
   fcnLayerMap     |-> [n \in Names |-> 0],
   fcnLayerXCoords |-> [n \in Names |-> UndefinedArr],
   fcnLayerYCoords |-> [n \in Names |-> UndefinedArr],
   fcnDrawProps    |-> [n \in Names |-> UndefinedProps],
   labelLayerMap   |-> [n \in Names |-> 0],
   labelDrawProps  |-> [n \in Names |-> UndefinedProps]]

\* a clear that also forgets the cached coordinates (a faulty variant)
Quadrant_clearAll(L) ==
  Ok([L EXCEPT
        !.functionLayers = [k \in DOMAIN L.functionLayers |-> <<>>],
        !.labelLayers = [k \in DOMAIN L.labelLayers |-> <<>>],
        !.fcnLayerXCoords = [n \in Names |-> Arr(<<>>)],
        !.fcnLayerYCoords = [n \in Names |-> Arr(<<>>)]])

Quadrant_clear(L) ==
  Ok([L EXCEPT
        !.functionLayers =
           [k \in DOMAIN L.functionLayers |->
              IF \E n \in Names : L.fcnLayerMap[n] = k
              THEN <<>> ELSE L.functionLayers[k]],
        !.labelLayers =
           [k \in DOMAIN L.labelLayers |->
              IF \E n \in Names : L.labelLayerMap[n] = k
              THEN <<>> ELSE L.labelLayers[k]]])

Quadrant_addFunctionlayer(L, layerName, props) ==
  IF layerName # ""
  THEN Ok([L EXCEPT !.functionLayers = Append(@, <<>>),
                    !.fcnLayerMap[layerName] = Len(L.functionLayers) + 1,
                    !.fcnDrawProps[layerName] = props,
                    !.fcnLayerXCoords[layerName] = Arr(<<>>),
                    !.fcnLayerYCoords[layerName] = Arr(<<>>)])
  ELSE Ok(L)

Quadrant_addFunctionlayerData(L, layerName, xCoord, yCoord) ==
  IF layerName # "" /\ xCoord.type = "array"
  THEN IF yCoord.type # "array"
       THEN Throw(L)
       ELSE IF Len(xCoord.items) = Len(yCoord.items)
            THEN Ok([L EXCEPT !.fcnLayerXCoords[layerName] = xCoord,
                              !.fcnLayerYCoords[layerName] = yCoord])
            ELSE Ok(L)
  ELSE Ok(L)

Quadrant_addLabelLayer(L, layerName, props) ==
  Ok([L EXCEPT !.labelLayers = Append(@, <<>>),
               !.labelLayerMap[layerName] = Len(L.labelLayers) + 1,
               !.labelDrawProps[layerName] = props])

\* the x pixel taken with the scale of the y axis (a faulty variant)
Quadrant_xPxByY(q, x) == RRound(RMul(RSub(x, q.left), q.pxPerUnitY))

Quadrant_xPx(q, x) == RRound(RMul(RSub(x, q.left), q.pxPerUnitX))
Quadrant_yPx(q, y) == RRound(RMul(RSub(q.top, y), q.pxPerUnitY))

RECURSIVE Quadrant_labelLoop(_, _, _, _, _, _)
Quadrant_labelLoop(q, xs, ys, labels, i, children) ==
  IF i > Len(xs) THEN children
  ELSE Quadrant_labelLoop(q, xs, ys, labels, i + 1,
         Append(children, [text |-> Layer_text(labels, i),
                           x |-> Quadrant_xPx(q, Layer_at(xs, i)),
                           y |-> Quadrant_yPx(q, Layer_at(ys, i))]))

Quadrant_graphLabelLayer(L, q, layerName, xCoord, yCoord, labels) ==
  LET container == L.labelLayerMap[layerName]
      props == L.labelDrawProps[layerName]
  IN  IF container = 0 THEN Ok(L)
      ELSE IF xCoord.type # "array" \/ yCoord.type # "array" THEN Throw(L)
      ELSE IF Len(xCoord.items) = 0 \/ Len(yCoord.items) = 0 THEN Ok(L)
      ELSE IF labels.type # "array" \/ props.type # "object"
           THEN Throw([L EXCEPT !.labelLayers[container] = <<>>])
           ELSE Ok([L EXCEPT !.labelLayers[container] =
                      Quadrant_labelLoop(q, xCoord.items, yCoord.items,
                                         labels.items, 1, <<>>)])

RECURSIVE Quadrant_strokeLoop(_, _, _, _, _)
Quadrant_strokeLoop(q, xs, ys, i, cmds) ==
  IF i > Len(xs) THEN cmds
  ELSE Quadrant_strokeLoop(q, xs, ys, i + 1,
         Append(cmds, <<IF i = 1 THEN "moveTo" ELSE "lineTo",
                        Quadrant_xPx(q, Layer_at(xs, i)),
                        Quadrant_yPx(q, Layer_at(ys, i))>>))

RECURSIVE Quadrant_dotLoop(_, _, _, _, _, _)
Quadrant_dotLoop(q, xs, ys, r, i, cmds) ==
  IF i > Len(xs) THEN cmds
  ELSE Quadrant_dotLoop(q, xs, ys, r, i + 1,
         cmds \o <<<<"beginFill">>,
                   <<"drawCircle", Quadrant_xPx(q, Layer_at(xs, i)),
                     Quadrant_yPx(q, Layer_at(ys, i)), r>>,
                   <<"endFill">>>>)

\* r = Math.max(2, Math.round(Math.abs(props.radius)))
Quadrant_radius(props) ==
  RMax(I(2), RRound(IF RLt(props.radius, Zero) THEN RNeg(props.radius)
                    ELSE props.radius))

\* the coordinates given are cached whatever their lengths
Quadrant_cache(L, layerName, xCoord, yCoord) ==
  [L EXCEPT !.fcnLayerXCoords[layerName] = xCoord,
            !.fcnLayerYCoords[layerName] = yCoord]

\* the coordinates given are cached when their lengths agree (a variant that
\* tests what addFunctionlayerData tests)
Quadrant_cacheMatched(L, layerName, xCoord, yCoord) ==
  IF Len(xCoord.items) = Len(yCoord.items)
  THEN Quadrant_cache(L, layerName, xCoord, yCoord) ELSE L

\* the shape of the layer redrawn from the cached coordinates
Quadrant_draw(L, q, layerName) ==
  LET xs == L.fcnLayerXCoords[layerName].items
      ys == L.fcnLayerYCoords[layerName].items
      props == L.fcnDrawProps[layerName]
      line == IF props.showLine
              THEN Append(Quadrant_strokeLoop(q, xs, ys, 1,
                            <<<<"setStrokeStyle">>, <<"beginStroke">>>>),
                          <<"endStroke">>)
              ELSE <<>>
  IN  IF props.type # "object" THEN Throw(L)
      ELSE Ok([L EXCEPT !.functionLayers[L.fcnLayerMap[layerName]] =
                 IF props.showDot
                 THEN Quadrant_dotLoop(q, xs, ys, Quadrant_radius(props), 1, line)
                 ELSE line])

Quadrant_graphLayer(L, q, layerName, xCoord, yCoord) ==
  IF L.fcnLayerMap[layerName] = 0 THEN Ok(L)
  ELSE IF xCoord.type = "array" /\ yCoord.type = "array"
       THEN IF Len(xCoord.items) = 0 \/ Len(yCoord.items) = 0 THEN Ok(L)
            ELSE Quadrant_draw(Quadrant_cache(L, layerName, xCoord, yCoord),
                               q, layerName)
       ELSE Quadrant_draw(L, q, layerName)

\* children a container of layers may hold
MaxShapes == 2

\* layers that are given properties, and the layer that is given data
FcnNameArgs == Names
DataNameArgs == {"a"}
LabelNameArgs == {"a"}
PropsArgs == {Props(TRUE, TRUE, I(3)), UndefinedProps}
\* xCoord and yCoord: of one length, of two lengths, x alone, none
CoordArgs ==
  {<<Arr(<<I(10)>>), Arr(<<I(5)>>)>>, <<Arr(<<I(0), I(20)>>), Arr(<<I(5)>>)>>,
   <<Arr(<<I(10)>>), UndefinedArr>>, <<UndefinedArr, UndefinedArr>>}
LabelArgs == {Arr(<<"p">>), UndefinedArr}
\* left, top, right, bottom, xAxisLength, yAxisLength
SceneArgs == {<<I(0), I(10), I(20), I(0), I(200), I(200)>>}

NoLayerCall ==
  [op |-> "none", layerName |-> "", xCoord |-> UndefinedArr,
   yCoord |-> UndefinedArr, threw |-> FALSE]

LayerInit ==
  /\ layers = Layers_new
  /\ layerCall = NoLayerCall

\* the call and its outcome recorded, the layers left as the call leaves them
LayerStep(r, op, layerName, xCoord, yCoord) ==
  /\ layers' = r.s
  /\ layerCall' = [op |-> op, layerName |-> layerName, xCoord |-> xCoord,
                   yCoord |-> yCoord, threw |-> r.threw]

SetSceneBounds ==
  \E s \in SceneArgs :
    /\ quad' = Quadrant_setGraphBounds(quad, s[1], s[2], s[3], s[4], s[5], s[6])
    /\ quadEntry' = quad
    /\ quadCall' = [op |-> "setGraphBounds", left |-> s[1], top |-> s[2],
                    right |-> s[3], bottom |-> s[4], xAxisLength |-> s[5],
                    yAxisLength |-> s[6]]
    /\ layerCall' = [NoLayerCall EXCEPT !.op = "setGraphBounds"]
    /\ UNCHANGED <<axisVars, decVars, facVars, layers, gaVars, dispVars>>

Clear ==
  /\ LayerStep(Quadrant_clear(layers), "clear", "", UndefinedArr, UndefinedArr)
  /\ UNCHANGED <<axisVars, decVars, facVars, quadVars, gaVars, dispVars>>

AddFunctionlayer ==
  \E n \in FcnNameArgs, p \in PropsArgs :
    /\ Len(layers.functionLayers) < MaxShapes
    /\ LayerStep(Quadrant_addFunctionlayer(layers, n, p), "addFunctionlayer",
                 n, UndefinedArr, UndefinedArr)
    /\ UNCHANGED <<axisVars, decVars, facVars, quadVars, gaVars, dispVars>>

AddFunctionlayerData ==
  \E n \in DataNameArgs, c \in CoordArgs :
    /\ LayerStep(Quadrant_addFunctionlayerData(layers, n, c[1], c[2]),
                 "addFunctionlayerData", n, c[1], c[2])
    /\ UNCHANGED <<axisVars, decVars, facVars, quadVars, gaVars, dispVars>>

AddLabelLayer ==
  \E n \in LabelNameArgs, p \in {Props(FALSE, FALSE, Zero)} :
    /\ layers.labelLayerMap[n] = 0
    /\ LayerStep(Quadrant_addLabelLayer(layers, n, p), "addLabelLayer",
                 n, UndefinedArr, UndefinedArr)
    /\ UNCHANGED <<axisVars, decVars, facVars, quadVars, gaVars, dispVars>>

GraphLabelLayer ==
  \E n \in LabelNameArgs, x \in {Arr(<<I(10)>>)}, y \in {Arr(<<I(5)>>)},
     t \in LabelArgs :
    /\ LayerStep(Quadrant_graphLabelLayer(layers, quad, n, x, y, t),
                 "graphLabelLayer", n, x, y)
    /\ UNCHANGED <<axisVars, decVars, facVars, quadVars, gaVars, dispVars>>

GraphLayer ==
  \E n \in DataNameArgs, c \in CoordArgs :
    /\ LayerStep(Quadrant_graphLayer(layers, quad, n, c[1], c[2]), "graphLayer",
                 n, c[1], c[2])
    /\ UNCHANGED <<axisVars, decVars, facVars, quadVars, gaVars, dispVars>>

LayerNext ==
  \/ SetSceneBounds
  \/ Clear
  \/ AddFunctionlayer
  \/ AddFunctionlayerData
  \/ AddLabelLayer
  \/ GraphLabelLayer
  \/ GraphLayer

-----------------------------------------------------------------------------
(* TSMT$GraphAxis on its own: bounds, zoom, shift, visibility and drawing. *)
(* The line decorator handed to drawAxis and drawGrid is the solid one;    *)
(* a drawing call records what it sent to its graphic contexts.            *)

RAbs(a) == IF RLt(a, Zero) THEN RNeg(a) ELSE a

\* String.prototype.toLowerCase on the directions used
toLowerCase(s) == CASE s = "IN" -> "in" [] s = "OUT" -> "out" [] OTHER -> s

GraphAxis_setMajorInc(ga, inc) ==
  IF ~isNaN(inc) /\ RGt(inc, Zero)
  THEN [ga EXCEPT !.axis = Axis_setMajorInc(@, inc)] ELSE ga

GraphAxis_setMinorInc(ga, inc) ==
  IF ~isNaN(inc) /\ RGt(inc, Zero)
  THEN [ga EXCEPT !.axis = Axis_setMinorInc(@, inc)] ELSE ga

GraphAxis_isVisible(ga) ==
  IF ga.orientation = HORIZONTAL
  THEN ~(RLt(ga.top, Zero) \/ RGt(ga.bottom, Zero))
  ELSE ~(RGt(ga.left, Zero) \/ RLt(ga.right, Zero))

\* the zoomed half extent: d/factor, d*factor, or d for another direction
GraphAxis_zoomed(d, dir, factor) ==
  IF dir = Axis_IN THEN RDiv(d, factor)
  ELSE IF dir = Axis_OUT THEN RMul(d, factor)
  ELSE d

\* the orthogonal pair of a horizontal axis about its midpoint, the top below
\* the midpoint and the bottom above it
GraphAxis_zoomH(ga, dir, factor) ==
  LET midpoint == RMul(Half, RAdd(ga.top, ga.bottom))
      d == GraphAxis_zoomed(RSub(ga.top, midpoint), toLowerCase(dir), factor)
  IN  [ga EXCEPT !.left = ga.axis.min, !.right = ga.axis.max,
                 !.top = RSub(midpoint, d), !.bottom = RAdd(midpoint, d)]

GraphAxis_zoomV(ga, dir, factor) ==
  LET midpoint == RMul(Half, RAdd(ga.right, ga.left))
      d == GraphAxis_zoomed(RSub(ga.right, midpoint), dir, factor)
  IN  [ga EXCEPT !.bottom = ga.axis.min, !.top = ga.axis.max,
                 !.left = RSub(midpoint, d), !.right = RAdd(midpoint, d)]

GraphAxis_zoom(ga, dir, factor0) ==
  LET factor == RRound(RAbs(factor0))
      zoomed == [ga EXCEPT !.axis = Axis_zoom(@, dir, factor)]
  IN  IF REq(factor, Zero) THEN ga
      ELSE IF ga.orientation = HORIZONTAL
           THEN GraphAxis_zoomH(zoomed, dir, factor)
           ELSE GraphAxis_zoomV(zoomed, dir, factor)

GraphAxis_shift(ga, dx, dy) ==
  LET isHorizontal == ga.orientation = HORIZONTAL
      a == Axis_shift(ga.axis, IF isHorizontal THEN dx ELSE dy)
      s == [ga EXCEPT !.axis = a]
  IN  IF REq(a.pxPerUnit, Zero) THEN s
      ELSE IF REq(ga.length, Zero) \/ REq(ga.height, Zero) THEN s
      ELSE IF isHorizontal
      THEN LET px == RDiv(RSub(ga.bottom, ga.top), ga.height)
           IN  [s EXCEPT !.left = a.min, !.right = a.max,
                         !.top = RSub(@, RMul(dy, px)),
                         !.bottom = RSub(@, RMul(dy, px))]
      ELSE LET px == RDiv(RSub(ga.right, ga.left), ga.length)
           IN  [s EXCEPT !.bottom = a.min, !.top = a.max,
                         !.left = RSub(@, RMul(dx, px)),
                         !.right = RSub(@, RMul(dx, px))]

\* a drawing call that tests nothing (a faulty variant)
GraphAxis_hiddenNever(ga, override) == FALSE

\* the zero test of the drawing calls: without override nothing is drawn
\* when the zero line lies outside the drawing area
GraphAxis_hidden(ga, override) ==
  /\ ~override
  /\ IF ga.orientation = HORIZONTAL
     THEN RLt(ga.top, Zero) \/ RGt(ga.bottom, Zero)
     ELSE RGt(ga.left, Zero) \/ RLt(ga.right, Zero)

\* pixel position of the axis line across the drawing area
GraphAxis_axisY(ga, override) ==
  LET px == RDiv(ga.height, RSub(ga.top, ga.bottom))
  IN  IF override THEN RMul(px, RSub(ga.top, ga.bottom))
      ELSE RMul(px, RAbs(ga.top))

\* bound is _left, or _right for the bottom arrow
GraphAxis_axisX(ga, override, bound) ==
  LET px == RDiv(ga.length, RSub(ga.right, ga.left))
  IN  IF override THEN Zero ELSE RMul(px, RAbs(bound))

GraphAxis_drawAxis(ga, override) ==
  IF GraphAxis_hidden(ga, override) THEN <<>>
  ELSE IF ga.orientation = HORIZONTAL
  THEN Solid_moveTo(Zero, GraphAxis_axisY(ga, override))
         \o Solid_lineTo(ga.length, GraphAxis_axisY(ga, override))
  ELSE Solid_moveTo(GraphAxis_axisX(ga, override, ga.left), Zero)
         \o Solid_lineTo(GraphAxis_axisX(ga, override, ga.left), ga.height)

GraphAxis_leftArrow(ga, arrowWidth, arrowHeight, override) ==
  LET axisY == GraphAxis_axisY(ga, override)
      axisX == GraphAxis_axisX(ga, override, ga.right)
      halfHeight == RMul(Half, arrowHeight)
      halfWidth == RMul(Half, arrowWidth)
  IN  IF ga.orientation = HORIZONTAL
      THEN << <<"moveTo", Zero, axisY>>,
              <<"lineTo", arrowWidth, RSub(axisY, halfHeight)>>,
              <<"lineTo", arrowWidth, RAdd(axisY, halfHeight)>>,
              <<"lineTo", Zero, axisY>> >>
      ELSE << <<"moveTo", axisX, ga.height>>,
              <<"lineTo", RSub(axisX, halfWidth), RSub(ga.height, arrowHeight)>>,
              <<"lineTo", RAdd(axisX, halfWidth), RSub(ga.height, arrowHeight)>>,
              <<"lineTo", axisX, ga.height>> >>

GraphAxis_rightArrow(ga, arrowWidth, arrowHeight, override) ==
  LET axisY == GraphAxis_axisY(ga, override)
      axisX == GraphAxis_axisX(ga, override, ga.left)
      halfHeight == RMul(Half, arrowHeight)
      halfWidth == RMul(Half, arrowWidth)
  IN  IF ga.orientation = HORIZONTAL
      THEN << <<"moveTo", ga.length, axisY>>,
              <<"lineTo", RSub(ga.length, arrowWidth), RSub(axisY, halfHeight)>>,
              <<"lineTo", RSub(ga.length, arrowWidth), RAdd(axisY, halfHeight)>>,
              <<"lineTo", ga.length, axisY>> >>
      ELSE << <<"moveTo", axisX, Zero>>,
              <<"lineTo", RSub(axisX, halfWidth), arrowHeight>>,
              <<"lineTo", RAdd(axisX, halfWidth), arrowHeight>>,
              <<"lineTo", axisX, Zero>> >>

\* leftArrow, rightArrow: whether a context is given (not null)
GraphAxis_drawArrows(ga, leftArrow, rightArrow, arrowWidth, arrowHeight, override) ==
  IF (leftArrow \/ rightArrow) /\ GraphAxis_hidden(ga, override) THEN <<>>
  ELSE (IF leftArrow
        THEN GraphAxis_leftArrow(ga, arrowWidth, arrowHeight, override)
        ELSE <<>>)
       \o (IF rightArrow
           THEN GraphAxis_rightArrow(ga, arrowWidth, arrowHeight, override)
           ELSE <<>>)

\* while (i < numTics): tics[i] with i counted from 0
RECURSIVE GraphAxis_ticsH(_, _, _, _, _, _)
GraphAxis_ticsH(tics, i, numTics, axisY, halfLen, cmds) ==
  IF i >= numTics THEN cmds
  ELSE GraphAxis_ticsH(tics, i + 1, numTics, axisY, halfLen,
         cmds \o << <<"moveTo", Layer_at(tics, i + 1), RSub(axisY, halfLen)>>,
                    <<"lineTo", Layer_at(tics, i + 1), RAdd(axisY, halfLen)>> >>)

\* i = numTics; while (i > 0): tics[i] with i counted from 0, so the first
\* element read lies one past the last tic and tics[0] is never read
RECURSIVE GraphAxis_ticsV(_, _, _, _, _)
GraphAxis_ticsV(tics, i, axisX, halfLen, cmds) ==
  IF i <= 0 THEN cmds
  ELSE GraphAxis_ticsV(tics, i - 1, axisX, halfLen,
         cmds \o << <<"moveTo", RSub(axisX, halfLen), Layer_at(tics, i + 1)>>,
                    <<"lineTo", RAdd(axisX, halfLen), Layer_at(tics, i + 1)>> >>)

GraphAxis_drawTicMarks(ga, type, ticLength, override) ==
  LET tics == Axis_getTicCoordinates(ga.axis, type)
      numTics == IF override THEN Len(tics) - 1 ELSE Len(tics)
      halfLen == RMul(Half, ticLength)
  IN  IF GraphAxis_hidden(ga, override) THEN <<>>
      ELSE IF ga.orientation = HORIZONTAL
      THEN GraphAxis_ticsH(tics, 0, numTics, GraphAxis_axisY(ga, override),
                           halfLen, <<>>)
      ELSE GraphAxis_ticsV(tics, numTics,
                           GraphAxis_axisX(ga, override, ga.left), halfLen, <<>>)

GraphAxis_drawMajorTicMarks(ga, ticLength, override) ==
  GraphAxis_drawTicMarks(ga, Axis_MAJOR, ticLength, override)

GraphAxis_drawMinorTicMarks(ga, ticLength, override) ==
  GraphAxis_drawTicMarks(ga, Axis_MINOR, ticLength, override)

RECURSIVE GraphAxis_gridLoop(_, _, _, _)
GraphAxis_gridLoop(ga, tics, i, cmds) ==
  IF i >= Len(tics) THEN cmds
  ELSE GraphAxis_gridLoop(ga, tics, i + 1,
         IF ga.orientation = HORIZONTAL
         THEN cmds \o Solid_moveTo(tics[i + 1], Zero)
                   \o Solid_lineTo(tics[i + 1], ga.height)
         ELSE cmds \o Solid_moveTo(Zero, tics[i + 1])
                   \o Solid_lineTo(ga.length, tics[i + 1]))

GraphAxis_drawGrid(ga) ==
  GraphAxis_gridLoop(ga, Axis_getTicCoordinates(ga.axis, Axis_MAJOR), 0, <<>>)

\* left, top, right, bottom, length, height given to setBounds: the visible
\* and the hidden box of the visibility example, a box of which only the
\* vertical pair is valid, an unbounded box
GaBoundsArgs ==
  {<<I(0 - 1), I(5), I(1), I(0 - 5), I(MaxLen), I(MaxLen)>>,
   <<I(1), I(5), I(3), I(1), I(MaxLen), I(MaxLen)>>,
   <<I(1), I(5), I(1), I(0 - 5), I(0), I(0 - 1)>>,
   <<NegInf, I(5), I(1), I(0 - 5), I(MaxLen), I(MaxLen)>>}
GaOrientArgs == {HORIZONTAL, VERTICAL, "D"}
GaIncArgs == {I(1), I(0)}
GaDirArgs == {Axis_IN, "OUT"}
GaFactorArgs == {I(2), I(0)}
GaShiftArgs == {<<I(MaxLen), I(MaxLen)>>}
\* arrowWidth, arrowHeight (the defaults) and ticLength
ArrowWidth == I(8)
ArrowHeight == I(5)
TicLength == I(4)

\* bounds zoom and shift may produce in the model: multiples of 1/2 of
\* magnitude <= MaxVal
GaInRange(ga) ==
  \A v \in {ga.left, ga.top, ga.right, ga.bottom} :
    isNaN(v) \/ ~isFinite(v) \/ (v[2] \in {1, 2} /\ AbsI(v[1]) <= MaxVal * v[2])

NoGaCall ==
  [op |-> "none", args |-> <<>>, override |-> FALSE, out |-> <<>>, ret |-> FALSE]

GaInit ==
  /\ gaxis = GraphAxis_new
  /\ gaCall = NoGaCall
  /\ gaBounded = FALSE

\* a mutator called with args
GaMutate(ga, op, args) ==
  /\ gaxis' = ga
  /\ gaCall' = [NoGaCall EXCEPT !.op = op, !.args = args]

\* a drawing call or a query: what it sent, what it returned
GaQuery(op, override, out, ret) ==
  /\ gaCall' = [op |-> op, args |-> <<>>, override |-> override, out |-> out,
                ret |-> ret]
  /\ UNCHANGED <<gaxis, gaBounded>>

\* the orientation is set in advance of the bounds
GaSetOrientation ==
  \E orient \in GaOrientArgs :
    /\ gaCall.op \in {"none", "orientation"}
    /\ GaMutate(GraphAxis_setOrientation(gaxis, orient), "orientation", <<>>)
    /\ UNCHANGED <<gaBounded, axisVars, decVars, facVars, quadVars, layerVars, dispVars>>

GaSetBounds ==
  \E b \in GaBoundsArgs :
    /\ GaMutate(GraphAxis_setBounds(gaxis, b[1], b[2], b[3], b[4], b[5], b[6]),
                "setBounds", b)
    /\ gaBounded' = (gaBounded \/ (RGt(b[3], b[1]) /\ RGt(b[2], b[4])))
    /\ UNCHANGED <<axisVars, decVars, facVars, quadVars, layerVars, dispVars>>

GaSetMajorInc ==
  \E inc \in GaIncArgs :
    /\ GaMutate(GraphAxis_setMajorInc(gaxis, inc), "majorInc", <<>>)
    /\ UNCHANGED <<gaBounded, axisVars, decVars, facVars, quadVars, layerVars, dispVars>>

GaSetMinorInc ==
  \E inc \in GaIncArgs :
    /\ GaMutate(GraphAxis_setMinorInc(gaxis, inc), "minorInc", <<>>)
    /\ UNCHANGED <<gaBounded, axisVars, decVars, facVars, quadVars, layerVars, dispVars>>

GaZoom ==
  \E dir \in GaDirArgs, factor \in GaFactorArgs :
    /\ GaInRange(GraphAxis_zoom(gaxis, dir, factor))
    /\ GaMutate(GraphAxis_zoom(gaxis, dir, factor), "zoom", <<>>)
    /\ UNCHANGED <<gaBounded, axisVars, decVars, facVars, quadVars, layerVars, dispVars>>

GaShift ==
  \E s \in GaShiftArgs :
    /\ GaInRange(GraphAxis_shift(gaxis, s[1], s[2]))
    /\ GaMutate(GraphAxis_shift(gaxis, s[1], s[2]), "shift", <<>>)
    /\ UNCHANGED <<gaBounded, axisVars, decVars, facVars, quadVars, layerVars, dispVars>>

IsVisible ==
  /\ GaQuery("isVisible", FALSE, <<>>, GraphAxis_isVisible(gaxis))
  /\ UNCHANGED <<axisVars, decVars, facVars, quadVars, layerVars, dispVars>>

DrawAxis ==
  \E override \in BOOLEAN :
    /\ GaQuery("drawAxis", override, GraphAxis_drawAxis(gaxis, override), FALSE)
    /\ UNCHANGED <<axisVars, decVars, facVars, quadVars, layerVars, dispVars>>

DrawArrows ==
  \E override \in BOOLEAN :
    /\ GaQuery("drawArrows", override,
               GraphAxis_drawArrows(gaxis, TRUE, TRUE, ArrowWidth,
                                    ArrowHeight, override), FALSE)
    /\ UNCHANGED <<axisVars, decVars, facVars, quadVars, layerVars, dispVars>>

DrawMajorTicMarks ==
  \E override \in BOOLEAN :
    /\ GaQuery("drawMajorTicMarks", override,
               GraphAxis_drawMajorTicMarks(gaxis, TicLength, override), FALSE)
    /\ UNCHANGED <<axisVars, decVars, facVars, quadVars, layerVars, dispVars>>

DrawMinorTicMarks ==
  \E override \in BOOLEAN :
    /\ GaQuery("drawMinorTicMarks", override,
               GraphAxis_drawMinorTicMarks(gaxis, TicLength, override), FALSE)
    /\ UNCHANGED <<axisVars, decVars, facVars, quadVars, layerVars, dispVars>>

DrawGrid ==
  /\ GaQuery("drawGrid", FALSE, GraphAxis_drawGrid(gaxis), FALSE)
  /\ UNCHANGED <<axisVars, decVars, facVars, quadVars, layerVars, dispVars>>

GaNext ==
  \/ GaSetOrientation \/ GaSetBounds \/ GaSetMajorInc \/ GaSetMinorInc
  \/ GaZoom \/ GaShift
  \/ IsVisible \/ DrawAxis \/ DrawArrows \/ DrawMajorTicMarks
  \/ DrawMinorTicMarks \/ DrawGrid

-----------------------------------------------------------------------------
(* The mutators of the Axis with the call on record: axisRet holds the     *)
(* last call, its argument and the Axis as it was when the call was made.  *)

MinMaxArgs == {I(0 - 1), I(0), I(1), I(MaxSmall)}
LengthArgs == {I(MaxLen), I(0 - MaxLen), R(5, 2), R(0 - 5, 2), I(0)}
ZoomFactorArgs == {I(2), I(3), R(3, 2), Half, NaN, PosInf}
ShiftAmountArgs == {I(1), I(0 - 1), I(2), NaN, PosInf}

NoAxisCall == [op |-> "none", arg |-> Zero, dir |-> "", pre |-> Axis_new]

CallInit == axis = Axis_new /\ axisRet = NoAxisCall

\* values of the interval the model follows: multiples of 1/2 and of 1/3
\* of magnitude <= MaxSmall
CallInRange(a) ==
  \A v \in {a.min, a.max} :
    isNaN(v) \/ (v[2] \in {1, 2, 3} /\ AbsI(v[1]) <= MaxSmall * v[2])

AxisCall(op, arg, dir, a) ==
  /\ CallInRange(a)
  /\ axis' = a
  /\ axisRet' = [op |-> op, arg |-> arg, dir |-> dir, pre |-> axis]

AxisSetMin ==
  \E v \in MinMaxArgs :
    /\ AxisCall("min", v, "", Axis_setMin(axis, v))
    /\ UNCHANGED <<decVars, facVars, quadVars, layerVars, gaVars, dispVars>>

AxisSetMax ==
  \E v \in MinMaxArgs :
    /\ AxisCall("max", v, "", Axis_setMax(axis, v))
    /\ UNCHANGED <<decVars, facVars, quadVars, layerVars, gaVars, dispVars>>

AxisSetLength ==
  \E v \in LengthArgs :
    /\ AxisCall("length", v, "", Axis_setLength(axis, v))
    /\ UNCHANGED <<decVars, facVars, quadVars, layerVars, gaVars, dispVars>>

AxisZoom ==
  \E dir \in DirArgs, f \in ZoomFactorArgs :
    /\ AxisCall("zoom", f, dir, Axis_zoom(axis, dir, f))
    /\ UNCHANGED <<decVars, facVars, quadVars, layerVars, gaVars, dispVars>>

AxisShift ==
  \E amount \in ShiftAmountArgs :
    /\ AxisCall("shift", amount, "", Axis_shift(axis, amount))
    /\ UNCHANGED <<decVars, facVars, quadVars, layerVars, gaVars, dispVars>>

AxisCallNext ==
  AxisSetMin \/ AxisSetMax \/ AxisSetLength \/ AxisZoom \/ AxisShift

-----------------------------------------------------------------------------
(* What TSMT$Quadrant shows: the grid, the axes, the tic marks and the tic *)
(* labels.  disp holds the drawing properties and the commands each sink   *)
(* holds; the grid is stroked with the shared decorator of the grid style, *)
(* whose commands carry integer pixels.  The text of a tic label is        *)
(* LabelWidth by LabelHeight pixels.                                       *)

LabelWidth == I(6)
LabelHeight == I(10)

\* a pixel coordinate as the integer it is
Pixel(r) == r[1] \div r[2]

\* the shared decorators, the commands sent to the sink so far, and the
\* calls of moveTo and lineTo that drawGrid made for them
Pen(d, t, cmds, calls) == [dashed |-> d, dotted |-> t, out |-> cmds, calls |-> calls]

\* the commands of one call of a decorator join those sent so far
Pen_dashed(p, d) == [p EXCEPT !.dashed = With(d, <<>>), !.out = @ \o d.out]
Pen_dotted(p, t) == [p EXCEPT !.dotted = With(t, <<>>), !.out = @ \o t.out]

\* line.moveTo(g, x, y) for the decorator of a style
Line_moveTo(s, p, x, y) ==
  IF s = DASHED THEN Pen_dashed(p, Dashed_moveTo(p.dashed, x, y))
  ELSE IF s = DOTTED THEN Pen_dotted(p, Dotted_moveTo(p.dotted, x, y))
  ELSE [p EXCEPT !.out = @ \o Solid_moveTo(x, y)]

\* line.lineTo(g, x, y) for the decorator of a style
Line_lineTo(s, p, x, y) ==
  IF s = DASHED THEN Pen_dashed(p, Dashed_lineTo(p.dashed, x, y))
  ELSE IF s = DOTTED THEN Pen_dotted(p, Dotted_lineTo(p.dotted, x, y))
  ELSE [p EXCEPT !.out = @ \o Solid_lineTo(x, y)]

\* the calls drawGrid(g, line) makes, in their order, go to the decorator of
\* a style, which takes whole pixels
RECURSIVE Line_stroke(_, _, _, _)
Line_stroke(s, p, cmds, i) ==
  IF i > Len(cmds) THEN p
  ELSE Line_stroke(s, IF cmds[i][1] = "moveTo"
                      THEN Line_moveTo(s, p, Pixel(cmds[i][2]), Pixel(cmds[i][3]))
                      ELSE Line_lineTo(s, p, Pixel(cmds[i][2]), Pixel(cmds[i][3])),
                   cmds, i + 1)

\* a new createjs.Text(" "), visible, at the origin
Label_new == [text |-> " ", x |-> Zero, y |-> Zero, visible |-> TRUE]

\* the Quadrant's own state beyond its bounds, after the constructor without
\* drawing properties
Display_new ==
  [showGrid |-> FALSE, gridStyle |-> SOLID, xAxisArrows |-> FALSE,
   yAxisArrows |-> FALSE, xAxisThickness |-> NaN, yAxisThickness |-> NaN,
   decimals |-> Zero, majorXInc |-> NaN, majorYInc |-> NaN,
   minorXInc |-> NaN, minorYInc |-> NaN, gridRendered |-> FALSE,
   gridVisible |-> TRUE, gridShape |-> <<>>, gridCalls |-> <<>>, xAxisShape |-> <<>>,
   yAxisShape |-> <<>>, xAxisArrowsShape |-> <<>>, yAxisArrowsShape |-> <<>>,
   xAxisTicMarks |-> <<>>, yAxisTicMarks |-> <<>>, xLabels |-> <<>>,
   yLabels |-> <<>>]

\* the drawing properties handed to the constructor or to setDrawProps
DrawProps(showGrid, gridStyle) ==
  [showGrid |-> showGrid, gridStyle |-> gridStyle, xAxisArrows |-> TRUE,
   yAxisArrows |-> TRUE, xAxisThickness |-> I(1), yAxisThickness |-> I(1),
   decimals |-> I(0)]

Quadrant_setDrawProps(d, props) ==
  [d EXCEPT !.showGrid = props.showGrid, !.gridStyle = props.gridStyle,
            !.xAxisArrows = props.xAxisArrows, !.yAxisArrows = props.yAxisArrows,
            !.xAxisThickness = props.xAxisThickness,
            !.yAxisThickness = props.yAxisThickness,
            !.decimals = RRound(RAbs(props.decimals))]

\* isNaN(major) ? this._majorXInc : Math.max(0, major)
Quadrant_inc(major, old) == IF isNaN(major) THEN old ELSE RMax(Zero, major)

\* the stroke of the grid ends
Quadrant_endGrid(p) == [p EXCEPT !.out = Append(@, <<"endStroke">>)]

\* __drawGrid: the grid sink and the shared decorators afterwards
Quadrant_drawGrid(q, d, p) ==
  IF ~d.showGrid THEN [p EXCEPT !.out = d.gridShape, !.calls = d.gridCalls]
  ELSE Quadrant_endGrid(
         Line_stroke(d.gridStyle,
                     [p EXCEPT !.out = << <<"clear">>, <<"setStrokeStyle">>,
                                          <<"beginStroke">> >>,
                               !.calls = GraphAxis_drawGrid(q.xAxis)
                                           \o GraphAxis_drawGrid(q.yAxis)],
                     GraphAxis_drawGrid(q.xAxis) \o GraphAxis_drawGrid(q.yAxis),
                     1))

\* clear, stroke style and colour, the drawing, the end of the stroke
Stroked(cmds) ==
  << <<"clear">>, <<"setStrokeStyle">>, <<"beginStroke">> >> \o cmds
    \o << <<"endStroke">> >>

\* the minor tic marks follow the major ones in the same sink
MinorStroked(sink, cmds) ==
  sink \o << <<"setStrokeStyle">>, <<"beginStroke">> >> \o cmds
    \o << <<"endStroke">> >>

Filled(cmds) == << <<"clear">>, <<"beginFill">> >> \o cmds \o << <<"endFill">> >>

\* __drawAxes
Quadrant_drawAxes(q, d) ==
  LET txWidth  == RAdd(RMul(I(3), d.xAxisThickness), I(2))
      txHeight == RAdd(RMul(I(2), d.xAxisThickness), I(1))
      tyWidth  == RAdd(RMul(I(3), d.yAxisThickness), I(1))
      tyHeight == RAdd(RMul(I(2), d.yAxisThickness), I(2))
      xMajor   == RMul(I(6), d.xAxisThickness)
      yMajor   == RMul(I(6), d.yAxisThickness)
      \* majorHeight is the y value when both increments are set, and
      \* undefined (NaN in arithmetic) when neither is
      majorHeight == IF RGt(d.majorYInc, Zero) THEN yMajor
                     ELSE IF RGt(d.majorXInc, Zero) THEN xMajor ELSE NaN
      minorHeight == RMax(I(2), RMul(Half, majorHeight))
      xTics == IF RGt(d.majorXInc, Zero)
               THEN Stroked(GraphAxis_drawMajorTicMarks(q.xAxis, xMajor, TRUE))
               ELSE d.xAxisTicMarks
      yTics == IF RGt(d.majorYInc, Zero)
               THEN Stroked(GraphAxis_drawMajorTicMarks(q.yAxis, yMajor, TRUE))
               ELSE d.yAxisTicMarks
  IN  [d EXCEPT
         !.xAxisShape = Stroked(GraphAxis_drawAxis(q.xAxis, TRUE)),
         !.yAxisShape = Stroked(GraphAxis_drawAxis(q.yAxis, TRUE)),
         !.xAxisArrowsShape =
            IF d.xAxisArrows
            THEN Filled(GraphAxis_drawArrows(q.xAxis, FALSE, TRUE, txWidth,
                                             txHeight, TRUE))
            ELSE @,
         !.yAxisArrowsShape =
            IF d.yAxisArrows
            THEN Filled(GraphAxis_drawArrows(q.yAxis, FALSE, TRUE, tyWidth,
                                             tyHeight, TRUE))
            ELSE @,
         !.xAxisTicMarks =
            IF RGt(d.minorXInc, Zero)
            THEN MinorStroked(xTics, GraphAxis_drawMinorTicMarks(q.xAxis,
                                       minorHeight, TRUE))
            ELSE xTics,
         !.yAxisTicMarks =
            IF RGt(d.minorYInc, Zero)
            THEN MinorStroked(yTics, GraphAxis_drawMinorTicMarks(q.yAxis,
                                       minorHeight, TRUE))
            ELSE yTics,
         !.gridRendered = TRUE]

\* +labelText[i]: the number a tic mark label stands for
Number(s) ==
  LET vs == {I(k) : k \in (0 - 2 * MaxVal)..(2 * MaxVal)}
              \cup {R(2 * k + 1, 2) : k \in (0 - 2 * MaxVal)..(2 * MaxVal)}
  IN  IF \E v \in vs : toString(v) = s
      THEN CHOOSE v \in vs : toString(v) = s
      ELSE NaN

\* __formatTicNumber with no decimals: an integral value as it is, another
\* one rounded away from zero at the half
Quadrant_formatTicNumber(value) ==
  IF REq(RRound(value), value) THEN toString(value)
  ELSE IF isNaN(value) THEN "NaN"
  ELSE IF RLt(value, Zero) THEN toString(RNeg(RRound(RNeg(value))))
  ELSE toString(RRound(value))

\* the labels of labels grown to the number of tics, the old ones hidden
Quadrant_pool(labels, numMajorTics) ==
  [i \in 1..(IF Len(labels) < numMajorTics THEN numMajorTics ELSE Len(labels)) |->
     IF i <= Len(labels) THEN [labels[i] EXCEPT !.visible = FALSE]
     ELSE Label_new]

\* the labels of the x-axis along the baseline below the axis
Quadrant_xLabels(q, d, override) ==
  LET majorTics  == Axis_getTicCoordinates(q.xAxis.axis, Axis_MAJOR)
      labelText  == Axis_getTicMarks(q.xAxis.axis, Axis_MAJOR)
      axisLength == q.xAxis.length
      axisY      == IF override THEN RMul(q.pxPerUnitY, RSub(q.top, q.bottom))
                    ELSE RMul(RDiv(q.xAxis.height, RSub(q.xAxis.top, q.xAxis.bottom)),
                              RAbs(q.xAxis.top))
      baseline   == RAdd(axisY, I(10))
      labels     == Quadrant_pool(d.xLabels, Len(majorTics))
  IN  [i \in 1..Len(labels) |->
         IF i <= Len(majorTics) /\ Layer_text(labelText, i) # "0"
         THEN LET ticX == majorTics[i]
              IN  [text |-> Quadrant_formatTicNumber(Number(Layer_text(labelText, i))),
                   x |-> RRound(RSub(ticX, RMul(Half, LabelWidth))),
                   y |-> baseline,
                   visible |-> IF override THEN RLt(ticX, RSub(axisLength, I(10)))
                               ELSE RGt(ticX, I(10))
                                    /\ RLt(ticX, RSub(axisLength, I(10)))]
         ELSE labels[i]]

\* the labels of the y-axis to the left of the axis
Quadrant_yLabels(q, d, override) ==
  LET majorTics  == Axis_getTicCoordinates(q.yAxis.axis, Axis_MAJOR)
      labelText  == Axis_getTicMarks(q.yAxis.axis, Axis_MAJOR)
      axisHeight == q.yAxis.height
      axisX      == IF override THEN Zero
                    ELSE RMul(RDiv(q.yAxis.length, RSub(q.yAxis.right, q.yAxis.left)),
                              RAbs(q.yAxis.left))
      labels     == Quadrant_pool(d.yLabels, Len(majorTics))
  IN  [i \in 1..Len(labels) |->
         IF i <= Len(majorTics) /\ Layer_text(labelText, i) # "0"
         THEN LET ticY == RSub(axisHeight, majorTics[i])
              IN  [text |-> Quadrant_formatTicNumber(Number(Layer_text(labelText, i))),
                   x |-> RSub(RSub(axisX, LabelWidth), I(4)),
                   y |-> RSub(RRound(RSub(ticY, RMul(Half, LabelHeight))), I(1)),
                   visible |-> IF override THEN RGt(ticY, I(10))
                               ELSE RGt(ticY, I(10))
                                    /\ RLt(ticY, RSub(axisHeight, I(10)))]
         ELSE labels[i]]

\* __ticLabels(redraw, override): this._xAxis.isVisible is the method itself,
\* which counts as true, so the labels are placed in every case
Quadrant_ticLabels(q, d, redraw, override) ==
  LET e == IF redraw THEN d ELSE [d EXCEPT !.xLabels = <<>>, !.yLabels = <<>>]
  IN  [e EXCEPT !.xLabels = Quadrant_xLabels(q, e, override),
                !.yLabels = Quadrant_yLabels(q, e, override)]

\* what a call of the display leaves: the Quadrant, its display with the
\* grid sink, and the shared decorators
Shown(q, d, p) ==
  [quad |-> q, disp |-> [d EXCEPT !.gridShape = p.out, !.gridCalls = p.calls],
   dashed |-> p.dashed, dotted |-> p.dotted]

\* showGrid(show)
Quadrant_showGrid(q, d, p, show) ==
  Shown(q, [d EXCEPT !.showGrid = show, !.gridVisible = show],
        IF show /\ q.gridInvalidated
        THEN Quadrant_drawGrid(q, [d EXCEPT !.showGrid = show], p)
        ELSE [p EXCEPT !.out = d.gridShape, !.calls = d.gridCalls])

\* the labels join the display that holds the axes
Quadrant_labelled(d, l) == [d EXCEPT !.xLabels = l.xLabels, !.yLabels = l.yLabels]

\* redraw(): the grid if it is shown, the axes, the labels, and the function
\* layers, of which a Quadrant without layers has none
Quadrant_redraw(q, d, p) ==
  Shown([q EXCEPT !.gridInvalidated = FALSE, !.labelsInvalidated = FALSE],
        Quadrant_labelled(Quadrant_drawAxes(q, d),
                          Quadrant_ticLabels(q, d, TRUE, TRUE)),
        Quadrant_drawGrid(q, d, p))

\* setGraphBounds(left, top, right, bottom, xAxisLength, yAxisLength) of the
\* display: a box above the x-axis with its top off the tics, a box around
\* the origin
SceneBoundsArgs ==
  {<<I(0), I(3), I(2), I(0), I(12), I(12)>>,
   <<I(0 - 1), I(1), I(1), I(0 - 1), I(12), I(12)>>}
SceneIncArgs == {I(2)}

NoDispCall == [op |-> "none", show |-> FALSE]

\* a Quadrant constructed with drawing properties: the grid is invalid
DispInit ==
  /\ \E show \in BOOLEAN, s \in Styles :
       disp = Quadrant_setDrawProps(Display_new, DrawProps(show, s))
  /\ quad = [Quadrant_new EXCEPT !.gridInvalidated = TRUE]
  /\ quadEntry = Quadrant_new
  /\ quadCall = NoQuadCall
  /\ dispCall = NoDispCall

\* the bounds of the Quadrant are set
Bounded(q) == RGt(q.right, q.left) /\ RGt(q.top, q.bottom)

DispStep(r, op, show) ==
  /\ quad' = r.quad
  /\ disp' = r.disp
  /\ dashed' = r.dashed
  /\ dotted' = r.dotted
  /\ dispCall' = [op |-> op, show |-> show]

SetBounds ==
  \E b \in SceneBoundsArgs :
    /\ \E r \in {Shown(Quadrant_setGraphBounds(quad, b[1], b[2], b[3], b[4],
                                               b[5], b[6]),
                       disp, Pen(dashed, dotted, disp.gridShape, disp.gridCalls))} :
         DispStep(r, "setGraphBounds", FALSE)
    /\ UNCHANGED <<axisVars, facVars, layerVars, gaVars, quadEntry, quadCall>>
    /\ UNCHANGED <<style, g, entry, call, fresh, freshG, stroke>>

SetMajorXInc ==
  \E major \in SceneIncArgs :
    /\ \E r \in {Shown([quad EXCEPT
                          !.xAxis = GraphAxis_setMajorInc(@, Quadrant_inc(major, disp.majorXInc)),
                          !.gridInvalidated = TRUE],
                       [disp EXCEPT !.majorXInc = Quadrant_inc(major, @)],
                       Pen(dashed, dotted, disp.gridShape, disp.gridCalls))} :
         DispStep(r, "majorXInc", FALSE)
    /\ UNCHANGED <<axisVars, facVars, layerVars, gaVars, quadEntry, quadCall>>
    /\ UNCHANGED <<style, g, entry, call, fresh, freshG, stroke>>

SetMajorYInc ==
  \E major \in SceneIncArgs :
    /\ \E r \in {Shown([quad EXCEPT
                          !.yAxis = GraphAxis_setMajorInc(@, Quadrant_inc(major, disp.majorYInc)),
                          !.gridInvalidated = TRUE],
                       [disp EXCEPT !.majorYInc = Quadrant_inc(major, @)],
                       Pen(dashed, dotted, disp.gridShape, disp.gridCalls))} :
         DispStep(r, "majorYInc", FALSE)
    /\ UNCHANGED <<axisVars, facVars, layerVars, gaVars, quadEntry, quadCall>>
    /\ UNCHANGED <<style, g, entry, call, fresh, freshG, stroke>>

ShowGrid ==
  \E show \in BOOLEAN :
    /\ Bounded(quad)
    /\ \E r \in {Quadrant_showGrid(quad, disp, Pen(dashed, dotted, <<>>, <<>>), show)} :
         DispStep(r, "showGrid", show)
    /\ UNCHANGED <<axisVars, facVars, layerVars, gaVars, quadEntry, quadCall>>
    /\ UNCHANGED <<style, g, entry, call, fresh, freshG, stroke>>

Redraw ==
  /\ Bounded(quad)
  /\ layers = Layers_new
  /\ \E r \in {Quadrant_redraw(quad, disp, Pen(dashed, dotted, <<>>, <<>>))} :
       DispStep(r, "redraw", FALSE)
  /\ UNCHANGED <<axisVars, facVars, layerVars, gaVars, quadEntry, quadCall>>
  /\ UNCHANGED <<style, g, entry, call, fresh, freshG, stroke>>

DispNext ==
  SetBounds \/ SetMajorXInc \/ SetMajorYInc \/ ShowGrid \/ Redraw

-----------------------------------------------------------------------------
(* The dotted decorator with its parameters, its lineTo taken step by step: *)
(* the call enters, the loop places one dot per step, the call returns.     *)
(* call holds where the running call stands.  The loop counter is kept      *)
(* modulo MaxIter + 1 and the sink up to its first MaxIter commands: a loop *)
(* over finitely many dots places at most MaxIter of them.                  *)

MaxIter == 16

\* objects given to setParams of the dotted decorator
DotDataArgs ==
  {[radius |-> Half, spacing |-> Half], [radius |-> I(1), spacing |-> I(2)],
   [radius |-> NaN, spacing |-> I(0 - 1)]}

\* a value is accepted if it is a finite number greater than zero; the
\* length takes the floor of both
Dotted_setParams(d, data) ==
  LET radius  == IF "radius" \in DOMAIN data /\ isFinite(data.radius)
                    /\ RGt(data.radius, Zero)
                 THEN data.radius ELSE I(d.radius)
      spacing == IF "spacing" \in DOMAIN data /\ isFinite(data.spacing)
                    /\ RGt(data.spacing, Zero)
                 THEN data.spacing ELSE I(d.spacing)
      length  == 2 * RFloor(radius)[1] + RFloor(spacing)[1]
  IN  [d EXCEPT !.radius = radius, !.spacing = spacing, !.length = length,
                !.lSq = length * length, !.out = <<>>]

\* Math.floor(root / length): Infinity for a positive root over length 0,
\* NaN for 0 / 0
Dotted_numDots(root, length) ==
  IF length = 0 THEN (IF root = 0 THEN NaN ELSE PosInf)
  ELSE I(root \div length)

Running(pc, x, y, i, numDots, dx, dy) ==
  [op |-> "lineTo", x |-> x, y |-> y, pc |-> pc, i |-> i, numDots |-> numDots,
   dx |-> dx, dy |-> dy]

NoRun == [Running("done", 0, 0, 0, Zero, 0, 0) EXCEPT !.op = "none"]

\* lineTo up to its loop: the decorator, and where the call stands
Dotted_enter(d, x, y) ==
  LET w    == With(d, <<>>)
      dSq  == Dotted_dSq(d, x, y)
      dx0  == x - w.refX
      dy0  == y - w.refY
      dist == Sqrt(dx0 * dx0 + dy0 * dy0)
      dx   == dx0 \div dist
      dy   == dy0 \div dist
      u    == Sqrt(w.unused)
      b    == IF w.unused = 0 THEN w
              ELSE Dotted_drawDot([w EXCEPT !.dotX = w.refX + dx * u,
                                            !.dotY = w.refY + dy * u],
                                  w.refX + dx * u, w.refY + dy * u)
      root == IF w.unused = 0 THEN Sqrt(dSq)
              ELSE Sqrt((x - b.dotX) * (x - b.dotX) + (y - b.dotY) * (y - b.dotY))
  IN  IF dSq <= w.lSq
      THEN [d |-> [w EXCEPT !.unused = dSq, !.refX = x, !.refY = y],
            call |-> Running("done", x, y, 0, Zero, 0, 0)]
      ELSE [d |-> b,
            call |-> Running("loop", x, y, 0, Dotted_numDots(root, w.length),
                             dx, dy)]

\* one pass of the loop: the dot moves on by length and is drawn
Dotted_step(d, c) ==
  Dotted_drawDot([With(d, <<>>) EXCEPT !.dotX = @ + c.dx * d.length,
                                       !.dotY = @ + c.dy * d.length],
                 d.dotX + c.dx * d.length, d.dotY + c.dy * d.length)

\* after the loop: the distance left over and the reference point
Dotted_leave(d, c) ==
  [d EXCEPT !.unused = (c.x - d.dotX) * (c.x - d.dotX)
                         + (c.y - d.dotY) * (c.y - d.dotY),
            !.refX = c.x, !.refY = c.y]

\* the sink up to its first MaxIter commands
Kept(cmds) == IF Len(cmds) <= MaxIter THEN cmds ELSE SubSeq(cmds, 1, MaxIter)

DottedInit ==
  /\ style = DOTTED
  /\ dashed = Dashed_new
  /\ dotted = Dotted_new
  /\ g = <<>>
  /\ entry = Dotted_new
  /\ call = NoRun
  /\ fresh = Dotted_new
  /\ freshG = <<>>
  /\ stroke = NoStroke

\* the parameters are assigned once, before the decorator draws
DottedSetParams ==
  /\ call.op = "none"
  /\ \E data \in DotDataArgs :
       /\ dotted' = Dotted_setParams(dotted, data)
       /\ call' = [NoRun EXCEPT !.op = "setParams"]
       /\ g' = <<>>
  /\ UNCHANGED <<style, dashed, entry, fresh, freshG, stroke>>
  /\ UNCHANGED <<axisVars, facVars, quadVars, layerVars, gaVars, dispVars>>

DottedStart ==
  /\ call.pc = "done"
  /\ \E x \in Xs, y \in Ys :
       /\ dotted' = With(Dotted_moveTo(dotted, x, y), <<>>)
       /\ g' = Dotted_moveTo(dotted, x, y).out
       /\ call' = [NoRun EXCEPT !.op = "moveTo", !.x = x, !.y = y]
  /\ UNCHANGED <<style, dashed, entry, fresh, freshG, stroke>>
  /\ UNCHANGED <<axisVars, facVars, quadVars, layerVars, gaVars, dispVars>>

DottedEnter ==
  /\ call.pc = "done"
  /\ \E x \in Xs, y \in Ys :
       /\ Dotted_exact(dotted, x, y)
       /\ \E r \in {Dotted_enter(dotted, x, y)} :
            /\ isFinite(r.call.numDots) => RLe(r.call.numDots, I(MaxIter))
            /\ dotted' = With(r.d, <<>>)
            /\ g' = r.d.out
            /\ call' = r.call
  /\ UNCHANGED <<style, dashed, entry, fresh, freshG, stroke>>
  /\ UNCHANGED <<axisVars, facVars, quadVars, layerVars, gaVars, dispVars>>

\* for (i = 0; i < numDots; ++i) { ... }: one pass
DottedDot ==
  /\ call.pc = "loop"
  /\ RLt(I(call.i), call.numDots)
  /\ dotted' = With(Dotted_step(dotted, call), <<>>)
  /\ g' = Kept(g \o Dotted_step(dotted, call).out)
  /\ call' = [call EXCEPT !.i = (@ + 1) % (MaxIter + 1)]
  /\ UNCHANGED <<style, dashed, entry, fresh, freshG, stroke>>
  /\ UNCHANGED <<axisVars, facVars, quadVars, layerVars, gaVars, dispVars>>

\* the loop is left and the call returns
DottedReturn ==
  /\ call.pc = "loop"
  /\ ~RLt(I(call.i), call.numDots)
  /\ dotted' = Dotted_leave(dotted, call)
  /\ call' = [call EXCEPT !.pc = "done"]
  /\ UNCHANGED <<style, dashed, g, entry, fresh, freshG, stroke>>
  /\ UNCHANGED <<axisVars, facVars, quadVars, layerVars, gaVars, dispVars>>

DottedNext ==
  DottedSetParams \/ DottedStart \/ DottedEnter \/ DottedDot \/ DottedReturn

-----------------------------------------------------------------------------
(* Specifications: one per component (its actions leave the other          *)
(* components unchanged), and the whole.                                   *)

\* the display of the Quadrant of the other components: no drawing properties
NoDisp == disp = Display_new /\ dispCall = NoDispCall

AllInit ==
  /\ AxisInit /\ DecInit(SOLID) /\ FacInit /\ QuadInit /\ LayerInit /\ GaInit
  /\ NoDisp

SpecAxis == AllInit /\ [][AxisNext]_vars

\* a behaviour of the decorators strokes with any one style
StyleInit ==
  /\ AxisInit /\ FacInit /\ QuadInit /\ LayerInit /\ GaInit /\ NoDisp
  /\ \E s \in Styles : DecInit(s)

SpecDecorator == StyleInit /\ [][DecNext]_vars

SpecFactory == AllInit /\ [][FacNext]_vars

SpecQuadrant == AllInit /\ [][QuadNext]_vars

SpecLayers == AllInit /\ [][LayerNext]_vars

DashedInit ==
  /\ AxisInit /\ DecInit(DASHED) /\ FacInit /\ QuadInit /\ LayerInit /\ GaInit
  /\ NoDisp

SpecDashed == DashedInit /\ [][DashedNext]_vars

SpecGraphAxis == AllInit /\ [][GaNext]_vars

AxisCallInit ==
  /\ CallInit /\ DecInit(SOLID) /\ FacInit /\ QuadInit /\ LayerInit /\ GaInit
  /\ NoDisp

SpecAxisCalls == AxisCallInit /\ [][AxisCallNext]_vars

DisplayInit ==
  AxisInit /\ DecInit(SOLID) /\ FacInit /\ DispInit /\ LayerInit /\ GaInit

SpecDisplay == DisplayInit /\ [][DispNext]_vars

DottedRunInit ==
  /\ AxisInit /\ DottedInit /\ FacInit /\ QuadInit /\ LayerInit /\ GaInit
  /\ NoDisp

\* a call that has started goes on running: the loop takes its next pass
\* and a loop that is over returns
SpecDotted ==
  /\ DottedRunInit /\ [][DottedNext]_vars
  /\ WF_vars(DottedDot) /\ WF_vars(DottedReturn)

Next ==
  \/ AxisNext \/ DecNext \/ FacNext \/ QuadNext \/ LayerNext \/ DashedNext
  \/ GaNext \/ AxisCallNext \/ DispNext \/ DottedNext

Spec == AllInit /\ [][Next]_vars

-----------------------------------------------------------------------------
(* Properties of the line decorators (SpecDecorator) and of the factory    *)
(* (SpecFactory).                                                          *)

\* position in the dash cycle [0, dashLength): the dash occupies
\* [0, dnLength), the gap [dnLength, dashLength); overflow is what is left of
\* the piece being traversed (0: the piece has not been entered)
DashPos(d) ==
  IF d.drawingLine
  THEN (IF d.overflow = 0 THEN 0 ELSE d.dnLength - d.overflow)
  ELSE (IF d.overflow = 0 THEN d.dnLength ELSE d.dashLength - d.overflow)

\* summed length of the pieces cmds runs through, starting at (px, py)
RECURSIVE PathLen(_, _, _)
PathLen(cmds, px, py) ==
  IF cmds = <<>> THEN 0
  ELSE AbsI(Head(cmds)[2] - px) + AbsI(Head(cmds)[3] - py)
       + PathLen(Tail(cmds), Head(cmds)[2], Head(cmds)[3])

\* every piece of cmds ends on the segment from (px, py) to (x, y)
OnSegment(cmds, px, py, x, y) ==
  \A i \in 1..Len(cmds) :
    /\ cmds[i][1] \in {"moveTo", "lineTo"}
    /\ (cmds[i][2] - px) * (x - cmds[i][2]) >= 0
    /\ (cmds[i][3] - py) * (y - cmds[i][3]) >= 0

\* where the pieces of cmds end, starting at (px, py)
EndOf(cmds, px, py) ==
  IF cmds = <<>> THEN <<px, py>>
  ELSE <<cmds[Len(cmds)][2], cmds[Len(cmds)][3]>>

SegLen == AbsI(call.x - entry.penX) + AbsI(call.y - entry.penY)

\* C1: one lineTo of the dashed decorator (upLength 3, dnLength 5) over a
\* straight segment of length L, from any reachable pattern state, emits
\* pieces that run contiguously from the pen position to the endpoint, whose
\* lengths sum to exactly L, and leaves the position in the dash cycle
\* advanced by L modulo the cycle length 8.
C1_DashConservation ==
  (style = DASHED /\ call.op = "lineTo"
     /\ entry.upLength = 3 /\ entry.dnLength = 5) =>
    /\ OnSegment(g, entry.penX, entry.penY, call.x, call.y)
    /\ PathLen(g, entry.penX, entry.penY) = SegLen
    /\ EndOf(g, entry.penX, entry.penY) = <<call.x, call.y>>
    /\ <<dashed.penX, dashed.penY>> = <<call.x, call.y>>
    /\ DashPos(dashed) = (DashPos(entry) + SegLen) % 8

\* C1 witness: a lineTo longer than one dash cycle entered in the middle of
\* a piece, which wraps around the cycle and ends in the middle of a piece
C1_Witness ==
  /\ style = DASHED /\ call.op = "lineTo"
  /\ entry.upLength = 3 /\ entry.dnLength = 5
  /\ entry.overflow > 0 /\ ~entry.drawingLine
  /\ SegLen > 8
  /\ dashed.overflow > 0
  /\ DashPos(dashed) < DashPos(entry)

\* C2: a dotted stroke (radius 3, spacing 4) over a straight run whose
\* length L is a positive multiple of 10, started by a moveTo, has placed
\* exactly 1 + L/10 dots, the moveTo dot included, with consecutive centers
\* exactly 10 apart along the stroke direction.
C2_DotSpacing ==
  (style = DOTTED /\ stroke.straight /\ stroke.len > 0
     /\ stroke.len % 10 = 0 /\ dotted.radius = 3 /\ dotted.spacing = 4) =>
    /\ Len(stroke.dots) = 1 + stroke.len \div 10
    /\ \A i \in 1..(Len(stroke.dots) - 1) :
         stroke.dots[i + 1] = <<stroke.dots[i][1] + 10 * stroke.dirX,
                                stroke.dots[i][2] + 10 * stroke.dirY>>

\* C3: the commands each call of a stroke sends through the shared decorator
\* are those a newly constructed decorator sends for the same stroke,
\* whatever was stroked through the shared decorator before.
C3_MoveToResets == call.op # "none" => g = freshG

\* C4: every create call returns the instance first returned for the style
\* its key stands for, unknown keys standing for solid.
C4_Singleton ==
  last.type # "none" => last.ret = first[Resolved(last.type)]

-----------------------------------------------------------------------------
(* Properties of the Axis (SpecAxis).                                      *)

\* length > 0 and max > min
NonDegenerate(a) == RGt(a.length, Zero) /\ RGt(a.max, a.min)

\* the increment of a tick kind
IncOf(a, kind) == IF kind = Axis_MAJOR THEN a.majorInc ELSE a.minorInc

\* the multiples k * inc of a positive increment within [min, max], ascending
FirstMultiple(a, inc) == RCeil(RDiv(a.min, inc))[1]
LastMultiple(a, inc) == RFloor(RDiv(a.max, inc))[1]
TickValues(a, inc) ==
  [i \in 1..(LastMultiple(a, inc) - FirstMultiple(a, inc) + 1) |->
     RMul(I(FirstMultiple(a, inc) + i - 1), inc)]

C6_PxPerUnit ==
  /\ RGt(axis.max, axis.min) =>
       REq(axis.pxPerUnit, RDiv(axis.length, RSub(axis.max, axis.min)))
  /\ RLe(axis.max, axis.min) => REq(axis.pxPerUnit, Zero)

\* C7: on an Axis with length 0 or max <= min, getTicMarks and
\* getTicCoordinates return the empty sequence for the major and the minor
\* kind.
C7_DegenerateEmpty ==
  (/\ REq(axis.length, Zero) \/ RLe(axis.max, axis.min)
   /\ axisRet.op \in {"getTicMarks", "getTicCoordinates"}
   /\ axisRet.arg \in {Axis_MAJOR, Axis_MINOR}) =>
    axisRet.val = <<>>

\* C8: on a non-degenerate Axis, getTicCoordinates of a kind with positive
\* increment inc returns, ascending, round((t - min) * pxPerUnit) for exactly
\* the multiples t of inc from ceil(min/inc)*inc up to max.
C8_TicCoordinates ==
  (/\ NonDegenerate(axis)
   /\ axisRet.op = "getTicCoordinates"
   /\ axisRet.arg \in {Axis_MAJOR, Axis_MINOR}
   /\ RGt(IncOf(axis, axisRet.arg), Zero)) =>
    LET t == TickValues(axis, IncOf(axis, axisRet.arg))
    IN  axisRet.val =
          [i \in 1..Len(t) |->
             RRound(RMul(RSub(t[i], axis.min), axis.pxPerUnit))]

\* C8 witness: the major tick coordinates of min = 0, max = 10, majorInc = 2
\* on an Axis of positive length: the offsets of the values 0, 2, 4, 6, 8, 10
C8_Witness ==
  /\ axis.min = I(0) /\ axis.max = I(10) /\ axis.majorInc = I(2)
  /\ RGt(axis.length, Zero)
  /\ axisRet.op = "getTicCoordinates" /\ axisRet.arg = Axis_MAJOR
  /\ Len(axisRet.val) = 6
  /\ axisRet.val[1] = I(0) /\ axisRet.val[6] = axis.length

\* C9: on a non-degenerate Axis, getTicMarks of a kind with positive
\* increment inc returns the decimal strings of exactly the multiples of inc
\* from ceil(min/inc)*inc up to max, as many as getTicCoordinates returns
\* offsets.
C9_TicMarks ==
  (/\ NonDegenerate(axis)
   /\ axisRet.op = "getTicMarks"
   /\ axisRet.arg \in {Axis_MAJOR, Axis_MINOR}
   /\ RGt(IncOf(axis, axisRet.arg), Zero)) =>
    LET t == TickValues(axis, IncOf(axis, axisRet.arg))
    IN  /\ axisRet.val = [i \in 1..Len(t) |-> toString(t[i])]
        /\ Len(axisRet.val) = Len(Axis_getTicCoordinates(axis, axisRet.arg))

-----------------------------------------------------------------------------
(* Properties of Quadrant.setGraphBounds (SpecQuadrant).                   *)

Bounds(o) == <<o.left, o.top, o.right, o.bottom>>

\* what setGraphBounds leaves: the bounds <<l, t, r, b>> stored all or none,
\* the lengths xl, yl, pixels per unit, both GraphAxis agreeing with the
\* Quadrant
SetGraphBoundsPost(l, t, r, b, xl, yl) ==
  /\ Bounds(quad) = IF RGt(r, l) /\ RGt(t, b) THEN <<l, t, r, b>>
                    ELSE Bounds(quadEntry)
  /\ quad.xAxisLength = xl
  /\ quad.yAxisLength = yl
  /\ quad.pxPerUnitX = RDiv(quad.xAxisLength, RSub(quad.right, quad.left))
  /\ quad.pxPerUnitY = RDiv(quad.yAxisLength, RSub(quad.top, quad.bottom))
  /\ \A ga \in {quad.xAxis, quad.yAxis} :
       /\ Bounds(ga) = Bounds(quad)
       /\ ga.length = quad.xAxisLength
       /\ ga.height = quad.yAxisLength

\* an argument that is not a number stands for the stored value
Given(v, old) == IF isNaN(v) THEN old ELSE v

\* C10 as stated: the four bounds are stored only if right > left and
\* top > bottom, else all four are kept; the lengths are always applied,
\* clamped to a minimum of 1; pixels per unit and both GraphAxis follow.
C10_Original ==
  quadCall.op = "setGraphBounds" =>
    SetGraphBoundsPost(quadCall.left, quadCall.top, quadCall.right,
                       quadCall.bottom, RMax(I(1), quadCall.xAxisLength),
                       RMax(I(1), quadCall.yAxisLength))

\* C10 amended: as stated, with every argument that is not a number standing
\* for the value stored on entry (a bound that is not a number keeps that
\* bound's stored value in the test and in the store; a length that is not
\* a number keeps the stored length).
C10_SetGraphBounds ==
  quadCall.op = "setGraphBounds" =>
    SetGraphBoundsPost(
      Given(quadCall.left, quadEntry.left), Given(quadCall.top, quadEntry.top),
      Given(quadCall.right, quadEntry.right),
      Given(quadCall.bottom, quadEntry.bottom),
      IF isNaN(quadCall.xAxisLength) THEN quadEntry.xAxisLength
      ELSE RMax(I(1), quadCall.xAxisLength),
      IF isNaN(quadCall.yAxisLength) THEN quadEntry.yAxisLength
      ELSE RMax(I(1), quadCall.yAxisLength))

\* C10 witness: with valid bounds stored, a call whose horizontal pair is
\* valid and whose vertical pair is not has been rejected as a whole, its
\* lengths applied
C10_Witness ==
  /\ quadCall.op = "setGraphBounds"
  /\ RGt(quadEntry.right, quadEntry.left) /\ RGt(quadEntry.top, quadEntry.bottom)
  /\ RGt(quadCall.right, quadCall.left)
  /\ ~isNaN(quadCall.top) /\ ~RGt(quadCall.top, quadCall.bottom)
  /\ quadCall.left # quadEntry.left
  /\ Bounds(quad) = Bounds(quadEntry)
  /\ quad.xAxisLength # quadEntry.xAxisLength

-----------------------------------------------------------------------------
(* Properties of the parameters and the clear of the dashed decorator      *)
(* (SpecDashed).                                                           *)

\* the number a key of the object given to setParams holds, NaN when missing
Given_length(key) ==
  IF key \in DOMAIN call.data THEN call.data[key] ELSE NaN

\* a value setParams has to apply: positive and finite
Applies(v) == isFinite(v) /\ RGt(v, Zero)

\* C16: setParams({upLength: u, dnLength: d}) sets upLength = round(u) when
\* u is positive and finite and dnLength = round(d) when d is positive and
\* finite; a missing, non-positive or non-finite value leaves the previous
\* length; dashLength is the sum of the two lengths.
C16_SetParams ==
  call.op = "setParams" =>
    LET u == Given_length("upLength")
        d == Given_length("dnLength")
    IN  /\ dashed.upLength = IF Applies(u) THEN RRound(u)[1] ELSE entry.upLength
        /\ dashed.dnLength = IF Applies(d) THEN RRound(d)[1] ELSE entry.dnLength
        /\ dashed.dashLength = dashed.upLength + dashed.dnLength

\* C17: clear(sink) clears the sink and resets the pattern and the pen:
\* after it overflow = 0, the pen is at (0, 0) and the phase is drawing.
C17_ClearResets ==
  call.op = "clear" =>
    /\ g = <<<<"clear">>>>
    /\ dashed.overflow = 0
    /\ dashed.drawingLine
    /\ dashed.penX = 0 /\ dashed.penY = 0

-----------------------------------------------------------------------------
(* Properties of the layers of the Quadrant (SpecLayers).                  *)

\* the pixel of the data point (x, y) under the bounds and scales of q
PixelOf(q, x, y) ==
  <<RRound(RMul(RSub(x, q.left), q.pxPerUnitX)),
    RRound(RMul(RSub(q.top, y), q.pxPerUnitY))>>

Min(a, b) == IF a < b THEN a ELSE b

\* the pen commands and the circles of a shape, in the order drawn
PenCmds(cmds) == SelectSeq(cmds, LAMBDA c : c[1] \in {"moveTo", "lineTo"})
Circles(cmds) == SelectSeq(cmds, LAMBDA c : c[1] = "drawCircle")

\* the shape and the cached data of the layer the last call named
ShapeOf(L, n) == L.functionLayers[L.fcnLayerMap[n]]
DataX(L, n) == L.fcnLayerXCoords[n].items
DataY(L, n) == L.fcnLayerYCoords[n].items

\* the last call was a graphLayer that drew the named, registered layer
Graphed ==
  /\ layerCall.op = "graphLayer"
  /\ ~layerCall.threw
  /\ layers.fcnLayerMap[layerCall.layerName] # 0

\* the last call was a graphLabelLayer that placed labels on the named layer
Labelled ==
  /\ layerCall.op = "graphLabelLayer"
  /\ ~layerCall.threw
  /\ layers.labelLayerMap[layerCall.layerName] # 0

\* the bounds and the box of the end-to-end scenario
Scenario ==
  /\ Bounds(quad) = <<I(0), I(10), I(20), I(0)>>
  /\ quad.xAxisLength = I(200) /\ quad.yAxisLength = I(200)

\* C11: graphLayer and graphLabelLayer place every data point (x, y) at the
\* pixel (round((x - left) * pxPerUnitX), round((top - y) * pxPerUnitY)): the
\* i-th pen command, the i-th circle and the i-th label are at the pixel of
\* the i-th data point; with bounds left = 0, top = 10, right = 20,
\* bottom = 0 and a 200 x 200 box the scales are 10 and 20 and the data
\* point (10, 5) is at the pixel (100, 100).
C11_PixelMapping ==
  /\ Graphed =>
       LET n == layerCall.layerName
           xs == DataX(layers, n)
           ys == DataY(layers, n)
           props == layers.fcnDrawProps[n]
           cmds == ShapeOf(layers, n)
       IN  \A i \in 1..Min(Len(xs), Len(ys)) :
             /\ props.showLine =>
                  /\ Len(PenCmds(cmds)) >= i
                  /\ <<PenCmds(cmds)[i][2], PenCmds(cmds)[i][3]>>
                       = PixelOf(quad, xs[i], ys[i])
             /\ props.showDot =>
                  /\ Len(Circles(cmds)) >= i
                  /\ <<Circles(cmds)[i][2], Circles(cmds)[i][3]>>
                       = PixelOf(quad, xs[i], ys[i])
  /\ Labelled =>
       LET texts == layers.labelLayers[layers.labelLayerMap[layerCall.layerName]]
           xs == layerCall.xCoord.items
           ys == layerCall.yCoord.items
       IN  \A i \in 1..Min(Len(xs), Len(ys)) :
             /\ Len(texts) >= i
             /\ <<texts[i].x, texts[i].y>> = PixelOf(quad, xs[i], ys[i])
  /\ Scenario =>
       /\ quad.pxPerUnitX = I(10) /\ quad.pxPerUnitY = I(20)
       /\ PixelOf(quad, I(10), I(5)) = <<I(100), I(100)>>
       /\ (Graphed /\ DataX(layers, layerCall.layerName) = <<I(10)>>
                   /\ DataY(layers, layerCall.layerName) = <<I(5)>>) =>
            PenCmds(ShapeOf(layers, layerCall.layerName))
              = <<<<"moveTo", I(100), I(100)>>>>

\* the scenario drawn: the data point (10, 5) graphed as a line point and a
\* dot at the pixel (100, 100) while a label stands at the same pixel
C11_Witness ==
  /\ Scenario
  /\ Graphed
  /\ DataX(layers, layerCall.layerName) = <<I(10)>>
  /\ DataY(layers, layerCall.layerName) = <<I(5)>>
  /\ Circles(ShapeOf(layers, layerCall.layerName))
       = <<<<"drawCircle", I(100), I(100), I(3)>>>>
  /\ layers.labelLayerMap["a"] # 0
  /\ layers.labelLayers[layers.labelLayerMap["a"]]
       = <<[text |-> "p", x |-> I(100), y |-> I(100)]>>

\* what clear must keep: the registered names, their draw properties, the
\* cached coordinates and the children of both layer containers
Registry(L) ==
  <<L.fcnLayerMap, L.fcnDrawProps, L.fcnLayerXCoords, L.fcnLayerYCoords,
    L.labelLayerMap, L.labelDrawProps, Len(L.functionLayers),
    Len(L.labelLayers)>>

\* C12: clear() changes rendered content only: the registered function and
\* label layers, their draw properties and the cached coordinates of every
\* layer are the same after it as before it; and a graphLayer('a') that
\* follows a clear() renders 'a' from its cached data (one pen command per
\* cached point, at its pixel) and leaves the registration of 'b' as it was.
C12_ClearKeepsLayers ==
  [][/\ layerCall'.op = "clear" =>
          /\ ~layerCall'.threw
          /\ Registry(layers') = Registry(layers)
     /\ (/\ layerCall.op = "clear"
         /\ layerCall'.op = "graphLayer" /\ layerCall'.layerName = "a"
         /\ layerCall'.xCoord.type = "undefined"
         /\ layers.fcnLayerMap["a"] # 0
         /\ ~layerCall'.threw) =>
          /\ Registry(layers') = Registry(layers)
          /\ Len(PenCmds(ShapeOf(layers', "a"))) = Len(DataX(layers, "a"))
          /\ \A i \in 1..Min(Len(DataX(layers, "a")), Len(DataY(layers, "a"))) :
               <<PenCmds(ShapeOf(layers', "a"))[i][2],
                 PenCmds(ShapeOf(layers', "a"))[i][3]>>
                 = PixelOf(quad, DataX(layers, "a")[i], DataY(layers, "a")[i])]_vars

\* layers 'a' and 'b' registered, 'a' with data and properties, and clear()
\* just called: nothing is rendered and the data of 'a' is still cached
C12_Witness ==
  /\ layerCall.op = "clear"
  /\ layers.fcnLayerMap["a"] # 0 /\ layers.fcnLayerMap["b"] # 0
  /\ layers.fcnDrawProps["a"].type = "object"
  /\ DataX(layers, "a") = <<I(10)>> /\ DataY(layers, "a") = <<I(5)>>
  /\ ShapeOf(layers, "a") = <<>>

\* C13: no public operation ends in a thrown error, whatever its input,
\* undefined coordinate arrays, labels and property objects included: the
\* last call of a behaviour never threw.
C13_NoThrow == ~layerCall.threw

\* the call was given x and y coordinate arrays of different lengths
Mismatched(c) ==
  /\ c.op \in {"addFunctionlayerData", "graphLayer"}
  /\ c.xCoord.type = "array" /\ c.yCoord.type = "array"
  /\ Len(c.xCoord.items) # Len(c.yCoord.items)

\* C14: addFunctionlayerData(name, xs, ys) and graphLayer(name, xs, ys) with
\* xs and ys of different lengths are no-ops: the cached coordinates of the
\* layer keep their contents and nothing is drawn, so the layers are after
\* the call what they were before it.
C14_MismatchNoOp ==
  [][Mismatched(layerCall') => layers' = layers]_vars

\* C15: registering a function layer again is idempotent: the function-layer
\* container holds exactly one shape for every registered name, and after
\* clear() no shape of the container shows anything.
C15_ReRegistration ==
  /\ Len(layers.functionLayers)
       = Cardinality({n \in Names : layers.fcnLayerMap[n] # 0})
  /\ layerCall.op = "clear" =>
       \A k \in DOMAIN layers.functionLayers : layers.functionLayers[k] = <<>>

-----------------------------------------------------------------------------
(* Properties of the GraphAxis (SpecGraphAxis).                            *)

\* C18: once setBounds was called with right > left and top > bottom, the
\* stored bounds satisfy right > left and top > bottom after any sequence of
\* setBounds, zoom and shift calls.
C18_BoundsOrdered ==
  gaBounded =>
    /\ RGt(gaxis.right, gaxis.left)
    /\ RGt(gaxis.top, gaxis.bottom)

\* C19: setBounds stores (left, right) iff right > left and, independently,
\* (bottom, top) iff top > bottom, stores length and height iff positive,
\* and leaves the owned Axis with min, max, length equal to left, right,
\* length of a HORIZONTAL axis and to bottom, top, height of a VERTICAL one.
C19_SetBoundsPartial ==
  [][gaCall'.op = "setBounds" =>
       LET b == gaCall'.args
           n == gaxis'
       IN  /\ <<n.left, n.right>> = IF RGt(b[3], b[1]) THEN <<b[1], b[3]>>
                                    ELSE <<gaxis.left, gaxis.right>>
           /\ <<n.bottom, n.top>> = IF RGt(b[2], b[4]) THEN <<b[4], b[2]>>
                                    ELSE <<gaxis.bottom, gaxis.top>>
           /\ n.length = IF RGt(b[5], Zero) THEN b[5] ELSE gaxis.length
           /\ n.height = IF RGt(b[6], Zero) THEN b[6] ELSE gaxis.height
           /\ <<n.axis.min, n.axis.max, n.axis.length>>
                = IF n.orientation = HORIZONTAL
                  THEN <<n.left, n.right, n.length>>
                  ELSE <<n.bottom, n.top, n.height>>]_vars

\* visibility as stated: the zero line lies within the orthogonal bounds
Visible(ga) ==
  IF ga.orientation = HORIZONTAL
  THEN ~(RLt(ga.top, Zero) \/ RGt(ga.bottom, Zero))
  ELSE ~(RGt(ga.left, Zero) \/ RLt(ga.right, Zero))

\* pixel offsets of the major ticks of the owned Axis
MajorTicks(ga) ==
  LET t == TickValues(ga.axis, ga.axis.majorInc)
  IN  [i \in 1..Len(t) |->
         RRound(RMul(RSub(t[i], ga.axis.min), ga.axis.pxPerUnit))]

\* one line across the drawing area at every offset of tics
RECURSIVE GridLines(_, _)
GridLines(ga, tics) ==
  IF tics = <<>> THEN <<>>
  ELSE (IF ga.orientation = HORIZONTAL
        THEN << <<"moveTo", Head(tics), Zero>>,
                <<"lineTo", Head(tics), ga.height>> >>
        ELSE << <<"moveTo", Zero, Head(tics)>>,
                <<"lineTo", ga.length, Head(tics)>> >>)
       \o GridLines(ga, Tail(tics))

\* C20: without override, drawAxis, drawArrows, drawMajorTicMarks and
\* drawMinorTicMarks send no command when the axis is not visible; isVisible
\* is NOT(top < 0 OR bottom > 0) for a HORIZONTAL axis and NOT(left > 0 OR
\* right < 0) for a VERTICAL one (horizontal with top = 5: visible with
\* bottom = -5, not visible with bottom = 1); drawGrid draws a line at every
\* major tick whether the axis is visible or not.
C20_Visibility ==
  /\ (/\ gaCall.op \in {"drawAxis", "drawArrows", "drawMajorTicMarks",
                        "drawMinorTicMarks"}
      /\ ~gaCall.override
      /\ ~Visible(gaxis)) => gaCall.out = <<>>
  /\ gaCall.op = "isVisible" =>
       /\ gaCall.ret = Visible(gaxis)
       /\ (gaxis.orientation = HORIZONTAL /\ gaxis.top = I(5)) =>
            /\ gaxis.bottom = I(0 - 5) => gaCall.ret
            /\ gaxis.bottom = I(1) => ~gaCall.ret
  /\ (/\ gaCall.op = "drawGrid"
      /\ NonDegenerate(gaxis.axis)
      /\ RGt(gaxis.axis.majorInc, Zero)) =>
       gaCall.out = GridLines(gaxis, MajorTicks(gaxis))

\* a horizontal axis with top = 5, bottom = 1 and major ticks: not visible,
\* and drawMajorTicMarks without override has just drawn nothing
C20_Witness ==
  /\ gaxis.orientation = HORIZONTAL
  /\ gaxis.top = I(5) /\ gaxis.bottom = I(1)
  /\ ~Visible(gaxis)
  /\ Len(MajorTicks(gaxis)) > 1
  /\ NonDegenerate(gaxis.axis)
  /\ gaCall.op = "drawMajorTicMarks" /\ ~gaCall.override
  /\ gaCall.out = <<>>

-----------------------------------------------------------------------------
(* Properties of the mutators of the Axis (SpecAxisCalls).                 *)

\* C21: after the length setter with a finite px the stored length is
\* |round(px)|, a non-negative integer, and pxPerUnit is that length over
\* max - min (for max > min).
C21_LengthRounded ==
  (axisRet.op = "length" /\ isFinite(axisRet.arg)) =>
    LET l == RAbs(RRound(axisRet.arg))
    IN  /\ axis.length = l
        /\ axis.length[2] = 1 /\ axis.length[1] >= 0
        /\ RGt(axis.max, axis.min) =>
             axis.pxPerUnit = RDiv(l, RSub(axis.max, axis.min))

\* C22: shift(a) with a finite a and pxPerUnit # 0 adds a/pxPerUnit to min
\* and to max and leaves length, pxPerUnit and max - min as they were; with
\* pxPerUnit = 0 or an amount that is not finite it changes nothing.
C22_ShiftTranslates ==
  axisRet.op = "shift" =>
    LET p == axisRet.pre
        a == axisRet.arg
    IN  IF isFinite(a) /\ RNe(p.pxPerUnit, Zero)
        THEN /\ axis.min = RAdd(p.min, RDiv(a, p.pxPerUnit))
             /\ axis.max = RAdd(p.max, RDiv(a, p.pxPerUnit))
             /\ RGt(a, Zero) /\ isFinite(p.pxPerUnit) /\ RGt(p.pxPerUnit, Zero)
                  => RGt(axis.min, p.min) /\ RGt(axis.max, p.max)
             /\ axis.length = p.length
             /\ axis.pxPerUnit = p.pxPerUnit
             /\ RSub(axis.max, axis.min) = RSub(p.max, p.min)
        ELSE axis = p

\* midpoint and half-width of the interval of an Axis
Midpoint(a) == RMul(Half, RAdd(a.min, a.max))
HalfWidth(a) == RMul(Half, RSub(a.max, a.min))

\* a factor that zoom acts on
Zooms(factor) == isFinite(factor) /\ ~RLt(factor, I(1))

\* the state after a zoom call against the Axis the call was made on
ZoomEffect ==
  axisRet.op = "zoom" =>
    LET p == axisRet.pre
        f == RRound(axisRet.arg)
    IN  IF ~Zooms(axisRet.arg) THEN axis = p
        ELSE axisRet.dir \in {Axis_IN, Axis_OUT} =>
               /\ Midpoint(axis) = Midpoint(p)
               /\ HalfWidth(axis) = IF axisRet.dir = Axis_IN
                                    THEN RDiv(HalfWidth(p), f)
                                    ELSE RMul(HalfWidth(p), f)
               /\ axis.length = p.length
               /\ RGt(axis.max, axis.min) =>
                    axis.pxPerUnit = RDiv(axis.length, RSub(axis.max, axis.min))

\* a zoom OUT that follows a zoom IN by the same rounded factor
ZoomBack ==
  /\ axisRet.op = "zoom" /\ axisRet.dir = Axis_IN /\ Zooms(axisRet.arg)
  /\ axisRet'.op = "zoom" /\ axisRet'.dir = Axis_OUT /\ Zooms(axisRet'.arg)
  /\ RRound(axisRet'.arg) = RRound(axisRet.arg)

\* C23: zoom changes nothing for a factor that is not finite or below 1;
\* otherwise, with f = round(factor), it keeps the midpoint, sets the
\* half-width to half/f for IN and half*f for OUT and recomputes pxPerUnit
\* for the new interval, and zoom(IN, f) followed by zoom(OUT, f) restores
\* min and max.
C23_Zoom ==
  /\ []ZoomEffect
  /\ [][ZoomBack => /\ axis'.min = axisRet.pre.min
                    /\ axis'.max = axisRet.pre.max]_vars

-----------------------------------------------------------------------------
(* Properties of the tick marks of the GraphAxis (SpecGraphAxis).          *)

\* the tick kind a drawing call asks getTicCoordinates for
KindOf(op) == IF op = "drawMajorTicMarks" THEN Axis_MAJOR ELSE Axis_MINOR

\* how often v occurs in the sequence s
Count(s, v) == Cardinality({i \in 1..Len(s) : s[i] = v})

\* the j-th segment of out lies across the axis at the coordinate c and is
\* len long
IsTick(out, j, horizontal, c, len) ==
  LET m == out[2 * j - 1]
      l == out[2 * j]
  IN  /\ m[1] = "moveTo" /\ l[1] = "lineTo"
      /\ IF horizontal
         THEN m[2] = c /\ l[2] = c /\ RSub(l[3], m[3]) = len
         ELSE m[3] = c /\ l[3] = c /\ RSub(l[2], m[2]) = len

\* C24: drawMajorTicMarks and drawMinorTicMarks send exactly one moveTo/lineTo
\* pair per coordinate of getTicCoordinates(kind), a segment of the given
\* length across the axis, for both orientations and with and without
\* override; no coordinate is skipped and none is read outside the list.
C24_TickPerCoordinate ==
  (/\ gaCall.op \in {"drawMajorTicMarks", "drawMinorTicMarks"}
   /\ gaCall.override \/ Visible(gaxis)) =>
    LET tics == Axis_getTicCoordinates(gaxis.axis, KindOf(gaCall.op))
        out  == gaCall.out
        h    == gaxis.orientation = HORIZONTAL
    IN  /\ Len(out) = 2 * Len(tics)
        /\ \A j \in 1..Len(tics) :
             \E c \in {tics[i] : i \in 1..Len(tics)} :
               IsTick(out, j, h, c, TicLength)
        /\ \A i \in 1..Len(tics) :
             Count(tics, tics[i])
               = Cardinality({j \in 1..Len(tics) :
                                IsTick(out, j, h, tics[i], TicLength)})

-----------------------------------------------------------------------------
(* Properties of what the Quadrant shows (SpecDisplay) *)

\* the grid sink holds the grid of the current bounds and increments: the
\* calls that filled it are those drawGrid makes now
GridCurrent ==
  disp.gridCalls = GraphAxis_drawGrid(quad.xAxis) \o GraphAxis_drawGrid(quad.yAxis)

\* C25: the invalidation of the grid is lazy but never lost: while the grid
\* is not marked invalid the sink holds the grid of the current bounds, and
\* showGrid(true) leaves the grid of the current bounds in the sink
C25_GridNeverLost ==
  /\ ~quad.gridInvalidated => GridCurrent
  /\ dispCall.op = "showGrid" /\ dispCall.show => GridCurrent

\* the values of the major tics of the y-axis
YTicks(q) == TickValues(q.yAxis.axis, q.yAxis.axis.majorInc)

\* a line of the grid runs across the whole width at the pixel y
HasGridLine(calls, length, y) ==
  \E k \in 1..(Len(calls) - 1) :
    calls[k] = <<"moveTo", Zero, y>> /\ calls[k + 1] = <<"lineTo", length, y>>

\* a tic mark of the y-axis lies at the pixel y
HasTicMark(cmds, y) ==
  \E k \in 1..(Len(cmds) - 1) :
    /\ cmds[k][1] = "moveTo" /\ cmds[k + 1][1] = "lineTo"
    /\ cmds[k][3] = y /\ cmds[k + 1][3] = y

\* the label of the value v is centred on the pixel y: its top is half the
\* height of the text above, less the one pixel the code takes off
HasLabel(labels, v, y) ==
  \E j \in 1..Len(labels) :
    /\ labels[j].text = toString(v)
    /\ labels[j].y = RSub(RRound(RSub(y, RMul(Half, LabelHeight))), I(1))

\* a redraw with the grid shown and the major tics of the y-axis set
Redrawn == dispCall.op = "redraw" /\ disp.showGrid /\ RGt(disp.majorYInc, Zero)

\* C26: the y geometry is consistent: after a redraw, for every major tic
\* value v of the y-axis the horizontal line of the grid and the tic mark of
\* the y-axis lie at the pixel y where graphLayer plots y = v,
\* round((top - v) * pxPerUnitY), and the label of v (but for the label 0,
\* which is not shown) is centred there.
C26_YGeometry ==
  Redrawn =>
    \A i \in DOMAIN YTicks(quad) :
      LET v == YTicks(quad)[i]
          y == Quadrant_yPx(quad, v)
      IN  /\ HasGridLine(disp.gridCalls, quad.yAxis.length, y)
          /\ HasTicMark(disp.yAxisTicMarks, y)
          /\ v # Zero => HasLabel(disp.yLabels, v, y)

\* two redraws in a row
RedrawTwice == dispCall.op = "redraw" /\ dispCall'.op = "redraw"

\* the second of them sends every sink the commands of the first
SameSinks ==
  /\ disp'.gridShape = disp.gridShape
  /\ disp'.xAxisShape = disp.xAxisShape
  /\ disp'.yAxisShape = disp.yAxisShape
  /\ disp'.xAxisArrowsShape = disp.xAxisArrowsShape
  /\ disp'.yAxisArrowsShape = disp.yAxisArrowsShape
  /\ disp'.xAxisTicMarks = disp.xAxisTicMarks
  /\ disp'.yAxisTicMarks = disp.yAxisTicMarks

\* C27: redraw() is idempotent for every grid style (solid, dashed, dotted):
\* a redraw straight after a redraw sends the same commands to every sink,
\* whatever the shared decorator of the style has drawn before.
C27_RedrawIdempotent == [][RedrawTwice => SameSinks]_vars

-----------------------------------------------------------------------------
(* Properties of the patterns across segments (SpecDashed, SpecDecorator) *)

\* the unit pieces of the straight run from (px, py) to (x, y), each named
\* by twice its midpoint
Pieces(px, py, x, y) ==
  {<<2 * px + (2 * k - 1) * SgnI(x - px), 2 * py + (2 * k - 1) * SgnI(y - py)>> :
     k \in 1..(AbsI(x - px) + AbsI(y - py))}

\* the unit pieces cmds draws with the pen down, starting at (px, py)
RECURSIVE PenDown(_, _, _)
PenDown(cmds, px, py) ==
  IF cmds = <<>> THEN {}
  ELSE (IF Head(cmds)[1] = "lineTo"
        THEN Pieces(px, py, Head(cmds)[2], Head(cmds)[3]) ELSE {})
       \cup PenDown(Tail(cmds), Head(cmds)[2], Head(cmds)[3])

\* the position in the dash cycle, the cycle of the decorator's own lengths
CyclePos(d) ==
  IF d.drawingLine
  THEN (IF d.overflow = 0 THEN 0 ELSE d.dnLength - d.overflow)
  ELSE (IF d.overflow = 0 THEN d.dnLength % d.dashLength
        ELSE d.dashLength - d.overflow)

\* the points strictly between (px, py) and (x, y) on an axis-aligned run
Between(px, py, x, y) ==
  {<<px + k * SgnI(x - px), py + k * SgnI(y - py)>> :
     k \in 1..(AbsI(x - px) + AbsI(y - py) - 1)}

\* the lineTo on record drawn in two colinear parts through the point m
InTwo(m) ==
  LET a == Dashed_lineTo(entry, m[1], m[2])
      b == Dashed_lineTo(a, call.x, call.y)
  IN  [out |-> a.out \o b.out, end |-> With(b, <<>>)]

\* C28: the dashed pattern is continuous across segments: from any reachable
\* state of the pattern, one lineTo over a straight run draws with the pen
\* down the same intervals as two colinear lineTo calls that split the run
\* at any point, and leaves the pen at the same place and the same position
\* in the dash cycle.
C28_DashedContinuous ==
  (style = DASHED /\ call.op = "lineTo") =>
    \A m \in Between(entry.penX, entry.penY, call.x, call.y) :
      /\ PenDown(InTwo(m).out, entry.penX, entry.penY)
           = PenDown(g, entry.penX, entry.penY)
      /\ InTwo(m).end.penX = dashed.penX /\ InTwo(m).end.penY = dashed.penY
      /\ CyclePos(InTwo(m).end) = CyclePos(dashed)

\* C28 witness: a lineTo longer than a dash cycle, entered with the pen up in
\* the middle of a gap, that ends in the middle of a dash
C28_Witness ==
  /\ style = DASHED /\ call.op = "lineTo"
  /\ ~entry.drawingLine /\ entry.overflow > 0
  /\ SegLen > entry.dashLength
  /\ dashed.drawingLine /\ dashed.overflow > 0
  /\ PenDown(g, entry.penX, entry.penY) # {}

\* the dotted lineTo on record drawn in two colinear parts through the point m
DotsInTwo(m) ==
  LET a == Dotted_lineTo(entry, m[1], m[2])
  IN  Centers(a.out) \o Centers(Dotted_lineTo(a, call.x, call.y).out)

\* the points between where the model takes both parts exactly
ExactBetween ==
  {m \in Between(entry.refX, entry.refY, call.x, call.y) :
     /\ Dotted_exact(entry, m[1], m[2])
     /\ Dotted_exact(Dotted_lineTo(entry, m[1], m[2]), call.x, call.y)}

\* the decorator as a moveTo leaves it: on a dot, nothing carried
OnDot(d) == d.unused = 0 /\ d.dotX = d.refX /\ d.dotY = d.refY

\* C29: the dot pattern is continuous across segments: for a dotted
\* decorator starting fresh from a moveTo, one lineTo over a straight run
\* places dots at the same centers as two consecutive colinear lineTo calls
\* that split the run.
C29_DottedContinuous ==
  (style = DOTTED /\ call.op = "lineTo" /\ OnDot(entry)
     /\ (call.x = entry.refX \/ call.y = entry.refY)) =>
    \A m \in ExactBetween : DotsInTwo(m) = Centers(g)

\* C30: lineTo of the dotted decorator terminates, having placed finitely
\* many dots, for every radius and spacing setParams accepts (every positive
\* finite value, those below 1 included) and every target: a call that has
\* entered its loop returns.
C30_LineToTerminates == (call.pc = "loop") ~> (call.pc = "done")
====
